---------------------------- MODULE Spec2Model ----------------------------
(***************************************************************************)
(* A model of the developer console of src/ballistica/base/ui/             *)
(* dev_console.cc: the widgets (Button_, ToggleButton_, TabButton_), the   *)
(* visibility state machine, the input session (input string, command      *)
(* history, history cursor), the line buffer and the hand-off of commands  *)
(* to the logic event loop.                                                *)
(*                                                                         *)
(* Strings are sequences of bytes (UTF-8).  Lengths and positions on the   *)
(* screen are integers in units of 1/400 of a virtual pixel, which makes   *)
(* every product with the base scale (1.5, 1.75, 2.0) exact.               *)
(***************************************************************************)
EXTENDS Integers, Sequences, FiniteSets, TLC

VARIABLES
    state_,                   \* State_ state_
    state_prev_,              \* State_ state_prev_
    transition_start_,        \* double transition_start_
    input_string_,            \* std::string input_string_
    input_text_dirty_,        \* bool input_text_dirty_
    input_history_,           \* std::list<std::string> input_history_
    input_history_position_,  \* int input_history_position_
    input_enabled_,           \* bool input_enabled_
    last_line_,               \* std::string last_line_
    lines_,                   \* std::list<Line_> lines_
    last_line_mesh_dirty_,    \* bool last_line_mesh_dirty_
    tab_buttons_,             \* std::vector<std::unique_ptr<Widget_>> tab_buttons_
    buttons_,                 \* std::vector<std::unique_ptr<Widget_>> buttons_
    active_tab_,              \* std::string active_tab_
    python_console_pressed_,  \* bool python_console_pressed_
    string_edit_adapter_,     \* PythonRef string_edit_adapter_
    display_time,             \* g_base->logic->display_time()
    event_loop,               \* calls pushed to g_base->logic->event_loop()
    called,                   \* what the last step called outside the console
                              \* (for the widget alone: what the step was)
    toggle_run,               \* toggles, modulo 3, since the start or a Dismiss
    submissions,              \* every string Exec pushed to history, oldest first
    finalized,                \* every line finalized since the last clear
    wiped,                    \* what the last Exec with input enabled cleared
    locked_down_build,        \* g_buildconfig.demo_build() || arcade_build()
    appended,                 \* the text given to Print since the last clear,
                              \* end to end: as given, and as Print took it
    probe,                    \* a widget standing alone (the widget classes)
    probe_runs                \* how often each bound action of probe has run

vars == <<state_, state_prev_, transition_start_, input_string_,
          input_text_dirty_, input_history_, input_history_position_,
          input_enabled_, last_line_, lines_, last_line_mesh_dirty_,
          tab_buttons_, buttons_, active_tab_, python_console_pressed_,
          string_edit_adapter_, display_time, event_loop, called,
          toggle_run, submissions, finalized, wiped, appended,
          locked_down_build, probe, probe_runs>>

---------------------------------------------------------------------------
(* Program constants.                                                      *)

kDevConsoleLineLimit == 80
kDevConsoleStringBreakUpSize == 1950
kInputHistoryLimit == 100
\* kDevConsoleSize = 0.9f, in tenths.
kDevConsoleSizeTenths == 9
\* Units per virtual pixel (see the module comment).
kUnit == 400
\* kTransitionSeconds = 0.1, in ticks of display time (one tick is 0.05 s).
kTransitionTicks == 2

States == {"kInactive", "kMini", "kFull"}

kDevConsoleActivateKey1 == "SDLK_BACKQUOTE"
kDevConsoleActivateKey2 == "SDLK_F2"

\* "clear", "`" as bytes.
kClear == <<99, 108, 101, 97, 114>>
kBackTick == <<96>>

\* The tab names and the tab shown first.
tabs_ == <<"Python", "AppModes", "Logging">>
kInitialTab == "Python"

\* Host configuration: the virtual screen, in pixels, and the UI scale.
screen_virtual_width == 1280 * kUnit
screen_virtual_height == 720 * kUnit

\* PythonConsoleBaseScale_, in quarters: 1.5, 1.75, 2.0.
PythonConsoleBaseScale_(scale) ==
    CASE scale = "kLarge" -> 6
      [] scale = "kMedium" -> 7
      [] scale = "kSmall" -> 8
      [] scale = "kLast" -> 8

ui_scale == "kSmall"

\* k * bs for a constant k given in hundredths of a pixel, in units.
Scaled(k100) == k100 * PythonConsoleBaseScale_(ui_scale)

---------------------------------------------------------------------------
(* Strings.                                                                *)

RECURSIVE Concat(_)
Concat(ss) == IF ss = <<>> THEN <<>> ELSE Head(ss) \o Concat(Tail(ss))

Last(s) == s[Len(s)]
Front(s) == SubSeq(s, 1, Len(s) - 1)

IsContinuation(b) == b >= 128 /\ b < 192

\* Utils::UnicodeFromUTF8: the code points of a UTF-8 string, here each
\* code point as the bytes that encode it.
RECURSIVE UnicodeFromUTF8(_)
UnicodeFromUTF8(s) ==
    IF s = <<>> THEN <<>>
    ELSE IF Head(s) >= 192 /\ Head(s) < 224 /\ Len(s) >= 2
            /\ IsContinuation(s[2])
         THEN <<SubSeq(s, 1, 2)>> \o UnicodeFromUTF8(SubSeq(s, 3, Len(s)))
         ELSE <<SubSeq(s, 1, 1)>> \o UnicodeFromUTF8(Tail(s))

\* Utils::UTF8FromUnicode.
UTF8FromUnicode(unichars) == Concat(unichars)

\* Utils::GetValidUTF8: bytes that do not start or continue a code point
\* are replaced by '?'.
RECURSIVE GetValidUTF8(_)
GetValidUTF8(s) ==
    IF s = <<>> THEN <<>>
    ELSE IF Head(s) < 128 THEN <<Head(s)>> \o GetValidUTF8(Tail(s))
    ELSE IF Head(s) >= 192 /\ Head(s) < 224 /\ Len(s) >= 2
            /\ IsContinuation(s[2])
         THEN SubSeq(s, 1, 2) \o GetValidUTF8(SubSeq(s, 3, Len(s)))
         ELSE <<63>> \o GetValidUTF8(Tail(s))

---------------------------------------------------------------------------
(* Widgets.                                                                *)

XOffs(attach) ==
    CASE attach = "kLeft" -> 0
      [] attach = "kRight" -> screen_virtual_width
      [] attach = "kCenter" -> screen_virtual_width \div 2

NewButton_(attach, x, y, width, height, call) ==
    [kind |-> "Button_", attach |-> attach, x |-> x, y |-> y,
     width |-> width, height |-> height, pressed |-> FALSE, on |-> FALSE,
     selected |-> FALSE, call |-> call, on_call |-> call, off_call |-> call]

NewToggleButton_(attach, x, y, width, height, on_call, off_call) ==
    [kind |-> "ToggleButton_", attach |-> attach, x |-> x, y |-> y,
     width |-> width, height |-> height, pressed |-> FALSE, on |-> FALSE,
     selected |-> FALSE, call |-> on_call, on_call |-> on_call,
     off_call |-> off_call]

NewTabButton_(selected, attach, x, y, width, height, call) ==
    [kind |-> "TabButton_", attach |-> attach, x |-> x, y |-> y,
     width |-> width, height |-> height, pressed |-> FALSE, on |-> FALSE,
     selected |-> selected, call |-> call, on_call |-> call,
     off_call |-> call]

InUs(w, mx, my) ==
    LET lx == mx - XOffs(w.attach)
    IN  lx >= w.x /\ lx <= w.x + w.width /\ my >= w.y /\ my <= w.y + w.height

\* HandleMouseDown gives the widget afterwards and the value returned.
Button_HandleMouseDown(w, mx, my) ==
    IF InUs(w, mx, my)
    THEN [w |-> [w EXCEPT !.pressed = TRUE], ret |-> TRUE]
    ELSE [w |-> w, ret |-> FALSE]

ToggleButton_HandleMouseDown(w, mx, my) ==
    IF InUs(w, mx, my)
    THEN [w |-> [w EXCEPT !.pressed = TRUE], ret |-> TRUE]
    ELSE [w |-> w, ret |-> FALSE]

\* TabButton_::HandleMouseDown without its test of selected.
TabButton_HandleMouseDown_SelectedToo(w, mx, my) ==
    IF InUs(w, mx, my)
    THEN [w |-> [w EXCEPT !.pressed = TRUE], ret |-> TRUE]
    ELSE [w |-> w, ret |-> FALSE]

TabButton_HandleMouseDown(w, mx, my) ==
    IF InUs(w, mx, my) /\ ~w.selected
    THEN [w |-> [w EXCEPT !.pressed = TRUE], ret |-> TRUE]
    ELSE [w |-> w, ret |-> FALSE]

\* HandleMouseUp gives the widget afterwards and the calls it ran.
Button_HandleMouseUp_NoHitTest(w, mx, my) ==
    IF w.pressed
    THEN [w |-> [w EXCEPT !.pressed = FALSE], calls |-> <<w.call>>]
    ELSE [w |-> w, calls |-> <<>>]

\* Button_::HandleMouseUp that lets go only of a release inside.
Button_HandleMouseUp_OnlyInside(w, mx, my) ==
    IF w.pressed /\ InUs(w, mx, my)
    THEN [w |-> [w EXCEPT !.pressed = FALSE], calls |-> <<w.call>>]
    ELSE [w |-> w, calls |-> <<>>]

Button_HandleMouseUp(w, mx, my) ==
    IF w.pressed
    THEN [w |-> [w EXCEPT !.pressed = FALSE],
          calls |-> IF InUs(w, mx, my) THEN <<w.call>> ELSE <<>>]
    ELSE [w |-> w, calls |-> <<>>]

ToggleButton_HandleMouseUp(w, mx, my) ==
    IF w.pressed
    THEN IF InUs(w, mx, my)
         THEN [w |-> [w EXCEPT !.pressed = FALSE, !.on = ~w.on],
               calls |-> IF ~w.on THEN <<w.on_call>> ELSE <<w.off_call>>]
         ELSE [w |-> [w EXCEPT !.pressed = FALSE], calls |-> <<>>]
    ELSE [w |-> w, calls |-> <<>>]

TabButton_HandleMouseUp(w, mx, my) ==
    IF w.pressed
    THEN [w |-> [w EXCEPT !.pressed = FALSE],
          calls |-> IF InUs(w, mx, my) THEN <<w.call>> ELSE <<>>]
    ELSE [w |-> w, calls |-> <<>>]

\* The virtual calls of Widget_.
Widget_HandleMouseDown(w, mx, my) ==
    CASE w.kind = "Button_" -> Button_HandleMouseDown(w, mx, my)
      [] w.kind = "ToggleButton_" -> ToggleButton_HandleMouseDown(w, mx, my)
      [] w.kind = "TabButton_" -> TabButton_HandleMouseDown(w, mx, my)

Widget_HandleMouseUp(w, mx, my) ==
    CASE w.kind = "Button_" -> Button_HandleMouseUp(w, mx, my)
      [] w.kind = "ToggleButton_" -> ToggleButton_HandleMouseUp(w, mx, my)
      [] w.kind = "TabButton_" -> TabButton_HandleMouseUp(w, mx, my)

---------------------------------------------------------------------------
(* The console.  The operations below take the console (and the host state *)
(* it reads and writes) as a record c with one field per variable and      *)
(* give the record after the call.                                         *)

Self ==
    [state_ |-> state_, state_prev_ |-> state_prev_,
     transition_start_ |-> transition_start_,
     input_string_ |-> input_string_,
     input_text_dirty_ |-> input_text_dirty_,
     input_history_ |-> input_history_,
     input_history_position_ |-> input_history_position_,
     input_enabled_ |-> input_enabled_, last_line_ |-> last_line_,
     lines_ |-> lines_, last_line_mesh_dirty_ |-> last_line_mesh_dirty_,
     tab_buttons_ |-> tab_buttons_, buttons_ |-> buttons_,
     active_tab_ |-> active_tab_,
     python_console_pressed_ |-> python_console_pressed_,
     string_edit_adapter_ |-> string_edit_adapter_,
     display_time |-> display_time, event_loop |-> event_loop,
     called |-> {}, toggle_run |-> toggle_run, submissions |-> submissions,
     finalized |-> finalized, wiped |-> wiped, appended |-> appended,
     locked_down_build |-> locked_down_build]

Apply(c) ==
    /\ state_' = c.state_
    /\ state_prev_' = c.state_prev_
    /\ transition_start_' = c.transition_start_
    /\ input_string_' = c.input_string_
    /\ input_text_dirty_' = c.input_text_dirty_
    /\ input_history_' = c.input_history_
    /\ input_history_position_' = c.input_history_position_
    /\ input_enabled_' = c.input_enabled_
    /\ last_line_' = c.last_line_
    /\ lines_' = c.lines_
    /\ last_line_mesh_dirty_' = c.last_line_mesh_dirty_
    /\ tab_buttons_' = c.tab_buttons_
    /\ buttons_' = c.buttons_
    /\ active_tab_' = c.active_tab_
    /\ python_console_pressed_' = c.python_console_pressed_
    /\ string_edit_adapter_' = c.string_edit_adapter_
    /\ display_time' = c.display_time
    /\ event_loop' = c.event_loop
    /\ called' = c.called
    /\ toggle_run' = c.toggle_run
    /\ submissions' = c.submissions
    /\ finalized' = c.finalized
    /\ wiped' = c.wiped
    /\ appended' = c.appended
    /\ locked_down_build' = c.locked_down_build

\* The record c with name added to what the step called outside the
\* console: Log, PlaySound, PushCall, the platform's InvokeStringEditor.
Called(c, name) == [c EXCEPT !.called = @ \cup {name}]

\* The calls bound to the console's widgets.
ExecCall == [fn |-> "Exec", tab |-> ""]
TabCall(tab) == [fn |-> "SelectTab", tab |-> tab]

RECURSIVE TabButtonsFrom(_, _, _)
TabButtonsFrom(i, x, active) ==
    IF i > Len(tabs_) THEN <<>>
    ELSE <<NewTabButton_(active = tabs_[i], "kCenter", x, -Scaled(2600),
                         Scaled(9000), Scaled(2600), TabCall(tabs_[i]))>>
         \o TabButtonsFrom(i + 1, x + Scaled(9000), active)

RefreshTabsButtons_(c) ==
    LET total_width == Len(tabs_) * Scaled(9000)
    IN  [c EXCEPT !.tab_buttons_ =
            c.tab_buttons_ \o TabButtonsFrom(1, -(total_width \div 2),
                                             c.active_tab_)]

\* Refresh without its two calls of clear().
Refresh_NoClear(c) ==
    LET c1 == RefreshTabsButtons_(c)
    IN  IF c1.active_tab_ = "Python"
        THEN [c1 EXCEPT !.buttons_ =
                 Append(c1.buttons_,
                        NewButton_("kRight", -Scaled(3300), Scaled(1595),
                                   Scaled(3200), Scaled(1300), ExecCall))]
        ELSE c1

Refresh(c) ==
    LET c1 == RefreshTabsButtons_(
                  [c EXCEPT !.buttons_ = <<>>, !.tab_buttons_ = <<>>])
    IN  IF c1.active_tab_ = "Python"
        THEN [c1 EXCEPT !.buttons_ =
                 Append(c1.buttons_,
                        NewButton_("kRight", -Scaled(3300), Scaled(1595),
                                   Scaled(3200), Scaled(1300), ExecCall))]
        ELSE c1

\* The panel boundary.  ratio is (display_time - transition_start_) /
\* kTransitionSeconds; the interpolation is written over the common
\* denominator kTransitionTicks.
Height(state) ==
    LET vh == screen_virtual_height
    IN  CASE state = "kMini" -> vh - Scaled(9000)
          [] state = "kFull" -> vh - (vh * kDevConsoleSizeTenths) \div 10
          [] OTHER -> vh

Bottom_(c) ==
    LET vh == screen_virtual_height
        dt == c.display_time - c.transition_start_
        bottom == IF c.state_ = "kMini"
                  THEN vh - Scaled(9000)
                  ELSE vh - (vh * kDevConsoleSizeTenths) \div 10
    IN  IF dt < kTransitionTicks
        THEN (Height(c.state_) * dt
              + Height(c.state_prev_) * (kTransitionTicks - dt))
             \div kTransitionTicks
        ELSE bottom

ToggleTarget_FullToMini(state) ==
    CASE state = "kInactive" -> "kMini"
      [] state = "kMini" -> "kFull"
      [] state = "kFull" -> "kMini"

ToggleTarget(state) ==
    CASE state = "kInactive" -> "kMini"
      [] state = "kMini" -> "kFull"
      [] state = "kFull" -> "kInactive"

ToggleState(c) ==
    [Called(c, "PlaySound")
        EXCEPT !.state_prev_ = c.state_,
              !.state_ = ToggleTarget(c.state_),
              !.transition_start_ = c.display_time,
              !.toggle_run = (c.toggle_run + 1) % 3]

Dismiss(c) ==
    IF c.state_ = "kInactive" THEN c
    ELSE [c EXCEPT !.state_prev_ = c.state_,
                   !.state_ = "kInactive",
                   !.transition_start_ = c.display_time,
                   !.toggle_run = 0]

EnableInput(c) == [c EXCEPT !.input_enabled_ = TRUE]

set_input_string(c, val) ==
    [c EXCEPT !.input_string_ = val, !.input_text_dirty_ = TRUE]

\* The closure SubmitCommand_ pushes holds a copy of the command.
SubmitCommand_Twice(c, command) ==
    [Called(c, "PushCall")
        EXCEPT !.event_loop = c.event_loop \o <<command, command>>]

\* SubmitCommand_ that pushes ahead of the calls already waiting.
SubmitCommand_Front(c, command) ==
    [Called(c, "PushCall")
        EXCEPT !.event_loop = <<command>> \o c.event_loop]

SubmitCommand_(c, command) ==
    [Called(c, "PushCall")
        EXCEPT !.event_loop = Append(c.event_loop, command)]

IsClearCommand_Never(s) == FALSE

\* The trim that Exec does not do: blanks off both ends.
RECURSIVE Trimmed(_)
Trimmed(s) ==
    IF s # <<>> /\ Head(s) = 32 THEN Trimmed(Tail(s))
    ELSE IF s # <<>> /\ Last(s) = 32 THEN Trimmed(Front(s))
    ELSE s

IsClearCommand_Trimmed(s) == Trimmed(s) = kClear

IsClearCommand(s) == s = kClear

\* push_front, and pop_back past the limit.
PushHistory_PopFront(history, s) ==
    LET pushed == <<s>> \o history
    IN  IF Len(pushed) > kInputHistoryLimit THEN Tail(pushed) ELSE pushed

PushHistory(history, s) ==
    LET pushed == <<s>> \o history
    IN  IF Len(pushed) > kInputHistoryLimit THEN Front(pushed) ELSE pushed

\* Exec past its check of input_enabled_.
ExecEnabled(c) ==
    LET c1 == [c EXCEPT !.input_history_position_ = 0]
        c2 == IF IsClearCommand(c1.input_string_)
              THEN [c1 EXCEPT !.last_line_ = <<>>, !.lines_ = <<>>,
                              !.finalized = <<>>,
                              !.appended = [given |-> <<>>, taken |-> <<>>],
                              !.wiped = [lines |-> Len(c1.lines_),
                                         bytes |-> Len(c1.last_line_)]]
              ELSE SubmitCommand_([c1 EXCEPT !.wiped = [lines |-> 0,
                                                        bytes |-> 0]],
                                  c1.input_string_)
    IN  [c2 EXCEPT !.input_history_ =
                       PushHistory(c2.input_history_, c2.input_string_),
                   !.input_string_ = <<>>,
                   !.input_text_dirty_ = TRUE,
                   !.submissions = Append(c2.submissions, c2.input_string_)]

Exec_Unguarded(c) == ExecEnabled(c)

Exec(c) ==
    IF ~c.input_enabled_ THEN Called(c, "Log(kWarning)") ELSE ExecEnabled(c)

---------------------------------------------------------------------------
(* The line buffer.                                                        *)

\* The rendered width of one code point (TextGraphics).
kGlyphWidth == 900

\* TextGraphics::BreakUpString: the string cut into pieces no wider than
\* width, each piece as long as it can be and made of whole code points;
\* there is always a last piece, which may be empty.
GetStringWidth(s) == Len(UnicodeFromUTF8(s)) * kGlyphWidth

RECURSIVE BreakUpFrom(_, _, _)
BreakUpFrom(unichars, cur, width) ==
    IF unichars = <<>> THEN <<cur>>
    ELSE IF cur # <<>>
            /\ GetStringWidth(cur \o Head(unichars)) > width
         THEN <<cur>> \o BreakUpFrom(unichars, <<>>, width)
         ELSE BreakUpFrom(Tail(unichars), cur \o Head(unichars), width)

BreakUpString(s, width) == BreakUpFrom(UnicodeFromUTF8(s), <<>>, width)

\* emplace_back, and pop_front past the limit.
PushLine_PopBack(lines, line) ==
    LET pushed == Append(lines, line)
    IN  IF Len(pushed) > kDevConsoleLineLimit THEN Front(pushed) ELSE pushed

PushLine(lines, line) ==
    LET pushed == Append(lines, line)
    IN  IF Len(pushed) > kDevConsoleLineLimit THEN Tail(pushed) ELSE pushed

RECURSIVE PushLines(_, _, _)
PushLines(lines, pieces, now) ==
    IF pieces = <<>> THEN lines
    ELSE PushLines(PushLine(lines, [s |-> Head(pieces), creation_time |-> now]),
                   Tail(pieces), now)

\* The same lines, none evicted.
RECURSIVE PushAll(_, _, _)
PushAll(lines, pieces, now) ==
    IF pieces = <<>> THEN lines
    ELSE PushAll(Append(lines, [s |-> Head(pieces), creation_time |-> now]),
                 Tail(pieces), now)

\* std::string::c_str() read as a C string: the bytes before the first
\* zero byte.
RECURSIVE CStr(_)
CStr(s) ==
    IF s = <<>> \/ Head(s) = 0 THEN <<>> ELSE <<Head(s)>> \o CStr(Tail(s))

\* Print that cuts up only the new text, not what the accumulator held.
DevConsolePrint_NewTextOnly(c, s_in) ==
    LET s == GetValidUTF8(CStr(s_in))
        broken_up == BreakUpString(s, kDevConsoleStringBreakUpSize)
    IN  [c EXCEPT !.lines_ = PushLines(c.lines_, Front(broken_up),
                                       c.display_time),
                  !.appended = [given |-> c.appended.given \o s_in,
                                taken |-> c.appended.taken \o s],
                  !.finalized = PushAll(c.finalized, Front(broken_up),
                                        c.display_time),
                  !.last_line_ = Last(broken_up),
                  !.last_line_mesh_dirty_ = TRUE]

DevConsolePrint(c, s_in) ==
    LET s == GetValidUTF8(CStr(s_in))
        broken_up == BreakUpString(CStr(c.last_line_ \o s),
                                   kDevConsoleStringBreakUpSize)
    IN  [c EXCEPT !.lines_ = PushLines(c.lines_, Front(broken_up),
                                       c.display_time),
                  !.appended = [given |-> c.appended.given \o s_in,
                                taken |-> c.appended.taken \o s],
                  !.finalized = PushAll(c.finalized, Front(broken_up),
                                        c.display_time),
                  !.last_line_ = Last(broken_up),
                  !.last_line_mesh_dirty_ = TRUE]

---------------------------------------------------------------------------
(* Keys and text.                                                          *)

\* The % of C++ on int: the result has the sign of the dividend.
CMod(a, n) == IF a >= 0 THEN a % n ELSE -((-a) % n)

HistoryPositionUsed_NoMinusOne(position, size) == CMod(position, size)

HistoryPositionUsed(position, size) == CMod(position - 1, size)

\* The loop over input_history_: the entry at index j (from 0), if any.
HistoryLookup(c, used) ==
    IF used >= 0 /\ used < Len(c.input_history_)
    THEN [c EXCEPT !.input_string_ = c.input_history_[used + 1],
                   !.input_text_dirty_ = TRUE]
    ELSE c

HandleHistoryKey(c, sym) ==
    IF c.input_history_ = <<>> THEN c
    ELSE LET c1 == [c EXCEPT !.input_history_position_ =
                        IF sym = "SDLK_UP"
                        THEN c.input_history_position_ + 1
                        ELSE c.input_history_position_ - 1]
         IN  HistoryLookup(c1,
                 HistoryPositionUsed(c1.input_history_position_,
                                     Len(c1.input_history_)))

HandleBackspace(c) ==
    LET unichars == UnicodeFromUTF8(c.input_string_)
    IN  IF unichars # <<>>
        THEN [c EXCEPT !.input_string_ = UTF8FromUnicode(Front(unichars)),
                       !.input_text_dirty_ = TRUE]
        ELSE c

\* HandleKeyPress gives the console afterwards and the value returned.
HandleKeyPress(c, sym) ==
    IF sym \in {kDevConsoleActivateKey1, kDevConsoleActivateKey2}
    THEN [c |-> IF ~c.locked_down_build THEN ToggleState(c) ELSE c,
          ret |-> TRUE]
    ELSE IF c.state_ = "kInactive" THEN [c |-> c, ret |-> FALSE]
    ELSE [c |-> CASE sym = "SDLK_ESCAPE" -> Dismiss(c)
                  [] sym \in {"SDLK_BACKSPACE", "SDLK_DELETE"} ->
                         HandleBackspace(c)
                  [] sym \in {"SDLK_UP", "SDLK_DOWN"} ->
                         HandleHistoryKey(c, sym)
                  [] sym \in {"SDLK_KP_ENTER", "SDLK_RETURN"} -> Exec(c)
                  [] OTHER -> c,
          ret |-> TRUE]

\* A release that is absorbed only while the console is active.
HandleKeyRelease_OnlyWhenActive(c, sym) == c.state_ # "kInactive"

HandleKeyRelease(c, sym) ==
    IF sym \in {kDevConsoleActivateKey1, kDevConsoleActivateKey2}
    THEN TRUE
    ELSE c.state_ # "kInactive"

HandleTextEditing(c, text) ==
    IF c.state_ = "kInactive" THEN [c |-> c, ret |-> FALSE]
    ELSE IF text = kBackTick THEN [c |-> c, ret |-> FALSE]
    ELSE [c |-> [c EXCEPT !.input_string_ = c.input_string_ \o text,
                          !.input_text_dirty_ = TRUE],
          ret |-> TRUE]

---------------------------------------------------------------------------
(* The mouse and the string editor.                                        *)

\* host: what the host answers during the call.
\*   can_replace: CanPyStringEditAdapterBeReplaced(string_edit_adapter_)
\*   construct:   the adapter class call fails, or gives an adapter that is
\*                already replaceable, or gives a registered adapter
\* InvokeStringEditor_ that keeps a new adapter that is replaceable at once.
InvokeStringEditor_KeepsReplaceable(c, host) ==
    IF c.string_edit_adapter_ # "none" /\ ~host.can_replace THEN c
    ELSE IF host.construct = "fails" THEN Called(c, "Log(kError)")
    ELSE [Called(c, "InvokeStringEditor")
             EXCEPT !.string_edit_adapter_ = "adapter"]

InvokeStringEditor_(c, host) ==
    IF c.string_edit_adapter_ # "none" /\ ~host.can_replace THEN c
    ELSE IF host.construct = "fails" THEN Called(c, "Log(kError)")
    ELSE IF host.construct = "replaceable" THEN c
    ELSE [Called(c, "InvokeStringEditor")
             EXCEPT !.string_edit_adapter_ = "adapter"]

InputAdapterFinish(c) == [c EXCEPT !.string_edit_adapter_ = "none"]

\* Runnable::Run of a call bound to a widget of the console.
RunCall(c, call) ==
    CASE call.fn = "Exec" -> Exec(c)
      [] call.fn = "SelectTab" -> Refresh([c EXCEPT !.active_tab_ = call.tab])

RECURSIVE RunCalls(_, _)
RunCalls(c, calls) ==
    IF calls = <<>> THEN c ELSE RunCalls(RunCall(c, Head(calls)), Tail(calls))

\* The loop gone through to its end: every widget is offered the press.
RECURSIVE PressFrom_All(_, _, _, _)
PressFrom_All(widgets, i, mx, my) ==
    IF i > Len(widgets) THEN [widgets |-> widgets, ret |-> FALSE]
    ELSE LET r == Widget_HandleMouseDown(widgets[i], mx, my)
             rest == PressFrom_All([widgets EXCEPT ![i] = r.w], i + 1, mx, my)
         IN  [widgets |-> rest.widgets, ret |-> r.ret \/ rest.ret]

\* The loop of HandleMouseDown over one collection, from index i: the
\* collection afterwards and whether a widget took the press.
RECURSIVE PressFrom(_, _, _, _)
PressFrom(widgets, i, mx, my) ==
    IF i > Len(widgets) THEN [widgets |-> widgets, ret |-> FALSE]
    ELSE LET r == Widget_HandleMouseDown(widgets[i], mx, my)
         IN  IF r.ret
             THEN [widgets |-> [widgets EXCEPT ![i] = r.w], ret |-> TRUE]
             ELSE PressFrom(widgets, i + 1, mx, my)

\* HandleMouseDown that takes the press below the panel boundary as well.
HandleMouseDown_BelowToo(c, button, x, y) ==
    IF c.state_ = "kInactive" THEN [c |-> c, ret |-> FALSE]
    ELSE LET bottom == Bottom_(c)
             tabs == PressFrom(c.tab_buttons_, 1, x, y - bottom)
             btns == PressFrom(c.buttons_, 1, x, y - bottom)
         IN  IF button = 1 /\ tabs.ret
             THEN [c |-> [c EXCEPT !.tab_buttons_ = tabs.widgets],
                   ret |-> TRUE]
             ELSE IF button = 1 /\ btns.ret
             THEN [c |-> [c EXCEPT !.buttons_ = btns.widgets], ret |-> TRUE]
             ELSE [c |-> IF button = 1
                         THEN [c EXCEPT !.python_console_pressed_ = TRUE]
                         ELSE c,
                   ret |-> TRUE]

HandleMouseDown(c, button, x, y) ==
    IF c.state_ = "kInactive" THEN [c |-> c, ret |-> FALSE]
    ELSE LET bottom == Bottom_(c)
             tabs == PressFrom(c.tab_buttons_, 1, x, y - bottom)
             btns == PressFrom(c.buttons_, 1, x, y - bottom)
         IN  IF button = 1 /\ tabs.ret
             THEN [c |-> [c EXCEPT !.tab_buttons_ = tabs.widgets],
                   ret |-> TRUE]
             ELSE IF button = 1 /\ btns.ret
             THEN [c |-> [c EXCEPT !.buttons_ = btns.widgets], ret |-> TRUE]
             ELSE IF y < bottom THEN [c |-> c, ret |-> FALSE]
             ELSE [c |-> IF button = 1
                         THEN [c EXCEPT !.python_console_pressed_ = TRUE]
                         ELSE c,
                   ret |-> TRUE]

\* The loops of HandleMouseUp.  The call a tab runs clears and rebuilds
\* both collections (Refresh) while the loop over tab_buttons_ is going
\* through them, which leaves the loop with iterators that are no longer
\* valid.  What it reaches after that is not defined: the widgets built
\* anew at the next index, to the length n the collection had when the
\* loop began, or the widgets that were destroyed, as they were left.
Danglings == {"rebuilt", "destroyed"}

\* The loop going on over the destroyed widgets old, from index i.
RECURSIVE ReleaseDestroyedFrom(_, _, _, _, _)
ReleaseDestroyedFrom(c, old, i, mx, my) ==
    IF i > Len(old) THEN c
    ELSE LET r == Widget_HandleMouseUp(old[i], mx, my)
         IN  ReleaseDestroyedFrom(RunCalls(c, r.calls), old, i + 1, mx, my)

RECURSIVE ReleaseTabsFrom(_, _, _, _, _, _)
ReleaseTabsFrom(c, i, n, mx, my, dangling) ==
    IF i > n \/ i > Len(c.tab_buttons_) THEN c
    ELSE LET r == Widget_HandleMouseUp(c.tab_buttons_[i], mx, my)
             c1 == [c EXCEPT !.tab_buttons_[i] = r.w]
         IN  IF r.calls = <<>>
             THEN ReleaseTabsFrom(c1, i + 1, n, mx, my, dangling)
             ELSE LET c2 == Called(RunCalls(c1, r.calls),
                                   "clear() in loop")
                  IN  IF dangling = "destroyed"
                      THEN ReleaseDestroyedFrom(c2, c1.tab_buttons_, i + 1,
                                                mx, my)
                      ELSE ReleaseTabsFrom(c2, i + 1, n, mx, my, dangling)

RECURSIVE ReleaseButtonsFrom(_, _, _, _, _)
ReleaseButtonsFrom(c, i, n, mx, my) ==
    IF i > n \/ i > Len(c.buttons_) THEN c
    ELSE LET r == Widget_HandleMouseUp(c.buttons_[i], mx, my)
             c1 == [c EXCEPT !.buttons_[i] = r.w]
         IN  ReleaseButtonsFrom(RunCalls(c1, r.calls), i + 1, n, mx, my)

\* HandleMouseUp that asks for the editor wherever the release is.
HandleMouseUp_EditorAnywhere(c, button, x, y, host) ==
    LET bottom == Bottom_(c)
        c1 == IF button = 1
              THEN ReleaseTabsFrom(c, 1, Len(c.tab_buttons_), x, y - bottom,
                                   host.dangling)
              ELSE c
        c2 == IF button = 1
              THEN ReleaseButtonsFrom(c1, 1, Len(c1.buttons_), x, y - bottom)
              ELSE c1
    IN  IF button = 1 /\ c2.python_console_pressed_
        THEN LET c3 == [c2 EXCEPT !.python_console_pressed_ = FALSE]
             IN  IF ~host.direct_keyboard /\ host.have_editor
                 THEN InvokeStringEditor_(c3, host)
                 ELSE c3
        ELSE c2

HandleMouseUp(c, button, x, y, host) ==
    LET bottom == Bottom_(c)
        c1 == IF button = 1
              THEN ReleaseTabsFrom(c, 1, Len(c.tab_buttons_), x, y - bottom,
                                   host.dangling)
              ELSE c
        c2 == IF button = 1
              THEN ReleaseButtonsFrom(c1, 1, Len(c1.buttons_), x, y - bottom)
              ELSE c1
    IN  IF button = 1 /\ c2.python_console_pressed_
        THEN LET c3 == [c2 EXCEPT !.python_console_pressed_ = FALSE]
             IN  IF y > bottom /\ ~host.direct_keyboard /\ host.have_editor
                 THEN InvokeStringEditor_(c3, host)
                 ELSE c3
        ELSE c2

---------------------------------------------------------------------------
(* Draw.  What reaches the render pass is recorded as the call DrawMesh;   *)
(* the text groups Draw refreshes are the dirty flags it clears.           *)

Draw(c) ==
    IF \/ c.transition_start_ <= 0
       \/ /\ c.state_ = "kInactive"
          /\ c.display_time - c.transition_start_ >= kTransitionTicks
    THEN c
    ELSE LET c1 == Called(c, "DrawMesh")
         IN  IF c1.active_tab_ = "Python"
             THEN [c1 EXCEPT !.input_text_dirty_ = FALSE,
                             !.last_line_mesh_dirty_ =
                                 IF c1.last_line_ # <<>> THEN FALSE ELSE @]
             ELSE c1

---------------------------------------------------------------------------
(* The logic event loop runs the calls pushed to it, oldest first.  The    *)
(* closure of SubmitCommand_ evaluates the command and prints the repr of  *)
(* a result that is not None, followed by a newline.                       *)

RunPushedCall(c, repr) ==
    LET c1 == [c EXCEPT !.event_loop = Tail(c.event_loop)]
    IN  IF repr = <<>> THEN c1 ELSE DevConsolePrint(c1, repr \o <<10>>)

---------------------------------------------------------------------------
(* The state after construction.                                           *)

\* A widget of each class standing alone, with calls that only count.
ProbeCall(name) == [fn |-> name, tab |-> ""]

NewProbe(kind, attach, selected) ==
    CASE kind = "Button_" ->
             NewButton_(attach, -Scaled(3300), Scaled(1595), Scaled(3200),
                        Scaled(1300), ProbeCall("call"))
      [] kind = "ToggleButton_" ->
             NewToggleButton_(attach, -Scaled(3300), Scaled(1595),
                              Scaled(3200), Scaled(1300),
                              ProbeCall("on_call"), ProbeCall("off_call"))
      [] kind = "TabButton_" ->
             NewTabButton_(selected, attach, -Scaled(3300), Scaled(1595),
                           Scaled(3200), Scaled(1300), ProbeCall("call"))

NoRuns == [call |-> 0, on_call |-> 0, off_call |-> 0]

Constructed ==
    Refresh([state_ |-> "kInactive", state_prev_ |-> "kInactive",
             transition_start_ |-> 0, input_string_ |-> <<>>,
             input_text_dirty_ |-> TRUE, input_history_ |-> <<>>,
             input_history_position_ |-> 0, input_enabled_ |-> FALSE,
             last_line_ |-> <<>>, lines_ |-> <<>>,
             last_line_mesh_dirty_ |-> TRUE, tab_buttons_ |-> <<>>,
             buttons_ |-> <<>>, active_tab_ |-> kInitialTab,
             python_console_pressed_ |-> FALSE,
             string_edit_adapter_ |-> "none", display_time |-> 0,
             event_loop |-> <<>>, called |-> {}, toggle_run |-> 0,
             submissions |-> <<>>, finalized |-> <<>>,
             wiped |-> [lines |-> 0, bytes |-> 0],
             appended |-> [given |-> <<>>, taken |-> <<>>],
             locked_down_build |-> FALSE])

\* The console as constructed, in a build of either sort.
InitConsole ==
    /\ state_ = Constructed.state_
    /\ state_prev_ = Constructed.state_prev_
    /\ transition_start_ = Constructed.transition_start_
    /\ input_string_ = Constructed.input_string_
    /\ input_text_dirty_ = Constructed.input_text_dirty_
    /\ input_history_ = Constructed.input_history_
    /\ input_history_position_ = Constructed.input_history_position_
    /\ input_enabled_ = Constructed.input_enabled_
    /\ last_line_ = Constructed.last_line_
    /\ lines_ = Constructed.lines_
    /\ last_line_mesh_dirty_ = Constructed.last_line_mesh_dirty_
    /\ tab_buttons_ = Constructed.tab_buttons_
    /\ buttons_ = Constructed.buttons_
    /\ active_tab_ = Constructed.active_tab_
    /\ python_console_pressed_ = Constructed.python_console_pressed_
    /\ string_edit_adapter_ = Constructed.string_edit_adapter_
    /\ display_time = Constructed.display_time
    /\ event_loop = Constructed.event_loop
    /\ called = Constructed.called
    /\ toggle_run = Constructed.toggle_run
    /\ submissions = Constructed.submissions
    /\ finalized = Constructed.finalized
    /\ wiped = Constructed.wiped
    /\ appended = Constructed.appended
    /\ probe = NewProbe("Button_", "kRight", FALSE)
    /\ probe_runs = NoRuns

\* A build that is neither a demo nor an arcade build.
Init == InitConsole /\ locked_down_build = Constructed.locked_down_build

InitAnyBuild == InitConsole /\ locked_down_build \in BOOLEAN

---------------------------------------------------------------------------
(* Steps.  A step is one call of an entry point of the console by the      *)
(* host; lim bounds the data the step may build up.                        *)

Abs(n) == IF n < 0 THEN -n ELSE n

\* The data the console holds, counted in entries and bytes.
Weight(c) ==
    Len(c.input_string_) + Len(c.submissions)
    + Abs(c.input_history_position_) + Len(c.finalized) + Len(c.last_line_)

Within(c, lim) ==
    /\ Weight(c) <= lim.weight
    /\ Len(c.input_string_) <= lim.input
    /\ Len(c.submissions) <= lim.submissions
    /\ Len(c.event_loop) <= lim.queue
    /\ Abs(c.input_history_position_) <= lim.cursor
    /\ Len(c.finalized) <= lim.lines
    /\ c.display_time <= lim.time

\* The step that leaves the console as c.
Step(c, lim) ==
    /\ Within(c, lim)
    /\ Apply(c)
    /\ UNCHANGED <<probe, probe_runs>>

ToggleStateStep(lim) == Step(ToggleState(Self), lim)

DismissStep(lim) == Step(Dismiss(Self), lim)

EnableInputStep(lim) == Step(EnableInput(Self), lim)

RefreshStep(lim) == Step(Refresh(Self), lim)

ExecStep(lim) == Step(Exec(Self), lim)

DrawStep(lim) == Step(Draw(Self), lim)

SetInputStringStep(val, lim) ==
    Step(set_input_string(Self, val), lim)

InputAdapterFinishStep(lim) ==
    Step(InputAdapterFinish(Self), lim)

KeyPressStep(sym, lim) ==
    LET r == HandleKeyPress(Self, sym)
    IN  Step(r.c, lim)

KeyReleaseStep(sym, lim) ==
    /\ HandleKeyRelease(Self, sym) \in BOOLEAN
    /\ Step(Self, lim)

TextEditingStep(text, lim) ==
    LET r == HandleTextEditing(Self, text)
    IN  Step(r.c, lim)

MouseDownStep(button, x, y, lim) ==
    LET r == HandleMouseDown(Self, button, x, y)
    IN  Step(r.c, lim)

MouseUpStep(button, x, y, host, lim) ==
    Step(HandleMouseUp(Self, button, x, y, host), lim)

PrintStep(s, lim) == Step(DevConsolePrint(Self, s), lim)

RunPushedCallStep(repr, lim) ==
    /\ event_loop # <<>>
    /\ Step(RunPushedCall(Self, repr), lim)

\* Display time passes.
Tick(lim) ==
    Step([Self EXCEPT !.display_time = display_time + 1], lim)

\* The widget standing alone.
ProbeNew(kind, attach, selected) ==
    /\ probe' = NewProbe(kind, attach, selected)
    /\ probe_runs' = NoRuns
    /\ called' = {}
    /\ UNCHANGED <<state_, state_prev_, transition_start_, input_string_,
                   input_text_dirty_, input_history_, input_history_position_,
                   input_enabled_, last_line_, lines_, last_line_mesh_dirty_,
                   tab_buttons_, buttons_, active_tab_,
                   python_console_pressed_, string_edit_adapter_,
                   display_time, event_loop, toggle_run, submissions,
                   finalized, wiped, appended, locked_down_build>>

ProbePress(mx, my) ==
    LET r == Widget_HandleMouseDown(probe, mx, my)
    IN  /\ probe' = r.w
        /\ called' = IF InUs(probe, mx, my) THEN {"Press", "InUs"}
                                            ELSE {"Press"}
        /\ UNCHANGED <<state_, state_prev_, transition_start_, input_string_,
                       input_text_dirty_, input_history_,
                       input_history_position_, input_enabled_, last_line_,
                       lines_, last_line_mesh_dirty_, tab_buttons_, buttons_,
                       active_tab_, python_console_pressed_,
                       string_edit_adapter_, display_time, event_loop,
                       toggle_run, submissions, finalized, wiped,
                       appended, locked_down_build, probe_runs>>

RECURSIVE CountRuns(_, _)
CountRuns(runs, calls) ==
    IF calls = <<>> THEN runs
    ELSE CountRuns([runs EXCEPT ![Head(calls).fn] = @ + 1], Tail(calls))

ProbeRelease(mx, my, max_runs) ==
    LET r == Widget_HandleMouseUp(probe, mx, my)
        runs == CountRuns(probe_runs, r.calls)
    IN  /\ \A f \in DOMAIN runs : runs[f] <= max_runs
        /\ probe' = r.w
        /\ probe_runs' = runs
        /\ called' = {"Release"}
        /\ UNCHANGED <<state_, state_prev_, transition_start_, input_string_,
                       input_text_dirty_, input_history_,
                       input_history_position_, input_enabled_, last_line_,
                       lines_, last_line_mesh_dirty_, tab_buttons_, buttons_,
                       active_tab_, python_console_pressed_,
                       string_edit_adapter_, display_time, event_loop,
                       toggle_run, submissions, finalized, wiped,
                       appended, locked_down_build>>

---------------------------------------------------------------------------
(* What the host sends.                                                    *)

Keys == {kDevConsoleActivateKey1, kDevConsoleActivateKey2, "SDLK_ESCAPE",
         "SDLK_BACKSPACE", "SDLK_DELETE", "SDLK_UP", "SDLK_DOWN",
         "SDLK_KP_ENTER", "SDLK_RETURN", "SDLK_a"}

\* Points of the screen, taken relative to the panel boundary as it is
\* drawn: over each tab, on the edge two tabs share, over the Exec button,
\* in the panel beside the widgets, on the boundary, and below everything.
TabLeft(i) ==
    screen_virtual_width \div 2 - (Len(tabs_) * Scaled(9000)) \div 2
    + (i - 1) * Scaled(9000)

MouseOffsets ==
    {[x |-> TabLeft(i) + Scaled(4500), dy |-> -Scaled(1300)] :
        i \in 1..Len(tabs_)}
    \cup {[x |-> TabLeft(i), dy |-> -Scaled(1300)] : i \in 2..Len(tabs_)}
    \cup {[x |-> TabLeft(1) + Scaled(4500), dy |-> 0],
          [x |-> screen_virtual_width - Scaled(1700), dy |-> Scaled(2200)],
          [x |-> Scaled(1000), dy |-> Scaled(2200)],
          [x |-> Scaled(1000), dy |-> 0],
          [x |-> Scaled(1000), dy |-> -Scaled(10000)]}

MousePoints(c) == {[x |-> o.x, y |-> Bottom_(c) + o.dy] : o \in MouseOffsets}

\* A press or release: of button 1 at each point, of another button at the
\* points in the panel and below it.
MouseEvents(c) ==
    {[button |-> 1, x |-> p.x, y |-> p.y] : p \in MousePoints(c)}
    \cup {[button |-> 3, x |-> Scaled(1000), y |-> Bottom_(c) + dy] :
             dy \in {Scaled(2200), -Scaled(10000)}}

\* What the host answers when the string editor is wanted, and what the
\* build makes of the loop over a collection that was cleared; answers
\* that are not asked for are left at one value.
Hosts ==
    {h \in [direct_keyboard : BOOLEAN, have_editor : BOOLEAN,
            can_replace : BOOLEAN,
            construct : {"fails", "replaceable", "ok"},
            dangling : Danglings] :
        (h.direct_keyboard \/ ~h.have_editor)
            => (h.can_replace /\ h.construct = "ok")}

\* The release makes a pressed tab run its call.
RebuildsAt(c, e) ==
    /\ e.button = 1
    /\ \E i \in DOMAIN c.tab_buttons_ :
           /\ c.tab_buttons_[i].pressed
           /\ InUs(c.tab_buttons_[i], e.x, e.y - Bottom_(c))

\* The answers a release can ask for.
HostsAt(c, e) ==
    {h \in Hosts :
        /\ ~(e.button = 1 /\ c.python_console_pressed_ /\ e.y > Bottom_(c))
               => (h.direct_keyboard /\ ~h.have_editor)
        /\ ~RebuildsAt(c, e) => h.dangling = "rebuilt"}

\* The same on a host with a keyboard.
DesktopHostsAt(c, e) ==
    {h \in HostsAt(c, e) : h.direct_keyboard /\ ~h.have_editor}


---------------------------------------------------------------------------
(* The console as a whole: every entry point, on little data, on a host    *)
(* with a keyboard.                                                        *)

MaxWeight == 1
MaxTime == 2

\* No bound but the one named.
Unbounded == 1000000

Lim == [weight |-> MaxWeight, input |-> Unbounded, submissions |-> Unbounded,
        queue |-> Unbounded, cursor |-> Unbounded, lines |-> Unbounded,
        time |-> MaxTime]

Texts == {kBackTick, <<99>>}
Reprs == {<<>>, <<49>>}
DesktopHost == [direct_keyboard |-> TRUE, have_editor |-> FALSE,
                can_replace |-> TRUE, construct |-> "ok",
                dangling |-> "rebuilt"]

\* The presses and releases of the console as a whole: over the second
\* tab, over the Exec button, in the panel and below it.
GeneralEvents(c) ==
    {e \in MouseEvents(c) :
        /\ e.x \in {TabLeft(2) + Scaled(4500),
                    screen_virtual_width - Scaled(1700), Scaled(1000)}
        /\ e.y # Bottom_(c)}

Next ==
    \/ ToggleStateStep(Lim)
    \/ DismissStep(Lim)
    \/ EnableInputStep(Lim)
    \/ RefreshStep(Lim)
    \/ ExecStep(Lim)
    \/ \E val \in Texts : SetInputStringStep(val, Lim)
    \/ InputAdapterFinishStep(Lim)
    \/ \E sym \in Keys : KeyPressStep(sym, Lim)
    \/ \E sym \in Keys : KeyReleaseStep(sym, Lim)
    \/ \E text \in Texts : TextEditingStep(text, Lim)
    \/ \E e \in GeneralEvents(Self) : MouseDownStep(e.button, e.x, e.y, Lim)
    \/ \E e \in GeneralEvents(Self) : \E h \in DesktopHostsAt(Self, e) :
           MouseUpStep(e.button, e.x, e.y, h, Lim)
    \/ \E s \in Texts : PrintStep(s, Lim)
    \/ \E repr \in Reprs : RunPushedCallStep(repr, Lim)

Spec == Init /\ [][Next]_vars

---------------------------------------------------------------------------
(* The widget classes, each on a widget standing alone.                    *)

MaxRuns == 2

WidgetKinds == {"Button_", "ToggleButton_", "TabButton_"}
Attachments == {"kLeft", "kCenter", "kRight"}

\* Points for a widget: its middle, its far corner (the bounds are
\* inclusive), one unit past that corner, and one far away.
ProbePoints(w) ==
    {[x |-> XOffs(w.attach) + w.x + dx, y |-> w.y + dy] :
        <<dx, dy>> \in {<<w.width \div 2, w.height \div 2>>,
                        <<w.width, w.height>>,
                        <<w.width + 1, w.height>>,
                        <<-Scaled(10000), -Scaled(10000)>>}}

NextWidget ==
    \/ \E kind \in WidgetKinds, attach \in Attachments, selected \in BOOLEAN :
           /\ selected => kind = "TabButton_"
           /\ ProbeNew(kind, attach, selected)
    \/ \E p \in ProbePoints(probe) : ProbePress(p.x, p.y)
    \/ \E p \in ProbePoints(probe) : ProbeRelease(p.x, p.y, MaxRuns)

SpecWidget == Init /\ [][NextWidget]_vars

TotalRuns(runs) == runs.call + runs.on_call + runs.off_call

\* The bound action of probe ran exactly once in the step: for a
\* ToggleButton_ on flipped once and the action run is the one of the new
\* value of on.
RanOnce ==
    /\ TotalRuns(probe_runs') = TotalRuns(probe_runs) + 1
    /\ IF probe.kind = "ToggleButton_"
       THEN /\ probe'.on = ~probe.on
            /\ IF probe'.on
               THEN probe_runs'.on_call = probe_runs.on_call + 1
               ELSE probe_runs'.off_call = probe_runs.off_call + 1
       ELSE /\ probe_runs'.call = probe_runs.call + 1
            /\ probe'.on = probe.on

RanNothing == probe_runs' = probe_runs /\ probe'.on = probe.on

\* C2 as claimed: for every widget variant, after a Press that hit-tests
\* true a Release that does not hit-test true clears pressed and invokes
\* nothing, after a Press that hit-tests true a Release that hit-tests true
\* invokes the bound action exactly once, and a Release with no consumed
\* Press before it invokes nothing.
C2_Claimed ==
    [][\A p \in ProbePoints(probe) :
           ProbeRelease(p.x, p.y, MaxRuns) =>
               /\ ({"Press", "InUs"} \subseteq called
                       /\ ~InUs(probe, p.x, p.y))
                      => ~probe'.pressed /\ RanNothing
               /\ ({"Press", "InUs"} \subseteq called
                       /\ InUs(probe, p.x, p.y))
                      => ~probe'.pressed /\ RanOnce
               /\ ~probe.pressed => RanNothing /\ probe' = probe]_vars

\* C2, amended: the same, but a TabButton_ whose selected flag is set does
\* not consume the Press, and the Release then invokes nothing.
C2_PressRelease ==
    [][\A p \in ProbePoints(probe) :
           ProbeRelease(p.x, p.y, MaxRuns) =>
               /\ ({"Press", "InUs"} \subseteq called
                       /\ ~InUs(probe, p.x, p.y))
                      => ~probe'.pressed /\ RanNothing
               /\ ({"Press", "InUs"} \subseteq called
                       /\ InUs(probe, p.x, p.y))
                      => /\ ~probe'.pressed
                         /\ IF probe.kind = "TabButton_" /\ probe.selected
                            THEN RanNothing
                            ELSE RanOnce
               /\ ~probe.pressed => RanNothing /\ probe' = probe]_vars

\* A ToggleButton_ was pressed and released on its far corner and is on.
C2_Witness ==
    /\ probe.kind = "ToggleButton_"
    /\ probe.on
    /\ ~probe.pressed
    /\ probe_runs = [call |-> 0, on_call |-> 1, off_call |-> 0]
    /\ called = {"Release"}

---------------------------------------------------------------------------
(* The visibility state machine.                                           *)

\* A step that toggles: ToggleState called by the host or by an
\* activation key.
IsToggleStep ==
    \/ ToggleStateStep(Lim)
    \/ \E sym \in {kDevConsoleActivateKey1, kDevConsoleActivateKey2} :
           KeyPressStep(sym, Lim)

\* A step that dismisses: Dismiss called by the host or by Escape.
IsDismissStep == DismissStep(Lim) \/ KeyPressStep("SDLK_ESCAPE", Lim)

\* C1: the state is always one of Inactive, Mini, Full; a toggle moves
\* Inactive to Mini, Mini to Full and Full to Inactive, so that after a
\* number of toggles that is a multiple of 3, counted from Inactive with no
\* Dismiss in between, the state is Inactive; a dismiss ends in Inactive;
\* and a step that changes the state is a toggle or a dismiss.
C1_StateCycle ==
    /\ state_ \in States
    /\ [][/\ state_' \in States
          /\ IsToggleStep =>
                 \/ state_ = "kInactive" /\ state_' = "kMini"
                 \/ state_ = "kMini" /\ state_' = "kFull"
                 \/ state_ = "kFull" /\ state_' = "kInactive"
          /\ toggle_run' = 0 => state_' = "kInactive"
          /\ IsDismissStep => state_' = "kInactive"
          /\ state_' # state_ => IsToggleStep \/ IsDismissStep]_vars

\* Three toggles have gone round the cycle.
C1_Witness ==
    /\ state_ = "kInactive"
    /\ state_prev_ = "kFull"
    /\ toggle_run = 0
    /\ "PlaySound" \in called

---------------------------------------------------------------------------
(* The command history as a ring: more commands than it holds, each        *)
(* command the decimal numeral of the number of commands before it.        *)

MaxOverflow == 2
MaxQueueRing == 2

RingLim == [weight |-> Unbounded, input |-> Unbounded,
            submissions |-> kInputHistoryLimit + MaxOverflow,
            queue |-> MaxQueueRing, cursor |-> Unbounded,
            lines |-> Unbounded, time |-> Unbounded]

Digit(d) == 48 + d
Numeral(n) ==
    <<Digit(n \div 100), Digit((n \div 10) % 10), Digit(n % 10)>>

NextRing ==
    \/ EnableInputStep(RingLim)
    \/ ToggleStateStep(RingLim)
    \/ /\ input_string_ = <<>>
       /\ SetInputStringStep(Numeral(Len(submissions)), RingLim)
    \/ /\ input_string_ # <<>>
       /\ ExecStep(RingLim)
    \/ /\ input_string_ # <<>>
       /\ \E sym \in {"SDLK_RETURN", "SDLK_KP_ENTER"} :
              KeyPressStep(sym, RingLim)
    \/ RunPushedCallStep(<<>>, RingLim)

SpecRing == Init /\ [][NextRing]_vars

Min(a, b) == IF a < b THEN a ELSE b

\* The last n entries of s, the last one first.
RECURSIVE NewestFirst(_, _)
NewestFirst(s, n) ==
    IF n = 0 \/ s = <<>> THEN <<>>
    ELSE <<Last(s)>> \o NewestFirst(Front(s), n - 1)

\* C3: the command history never holds more than 100 entries, and holds
\* exactly the most recent submissions, up to 100 of them, most recent
\* first; once 101 commands have been submitted the first one is absent.
C3_HistoryRing ==
    /\ Len(input_history_) <= 100
    /\ input_history_ = NewestFirst(submissions, Min(Len(submissions), 100))
    /\ Len(submissions) > 100 =>
           \A i \in 1..Len(input_history_) :
               input_history_[i] # submissions[1]

\* The 101st command has been submitted.
C3_Witness == Len(submissions) = 101 /\ Len(input_history_) = 100

---------------------------------------------------------------------------
(* Walking the command history with Up and Down.                           *)

MaxHistory == 3
MaxCursorWalk == 4

WalkLim == [weight |-> Unbounded, input |-> Unbounded,
            submissions |-> MaxHistory, queue |-> Unbounded,
            cursor |-> MaxCursorWalk, lines |-> Unbounded,
            time |-> Unbounded]

NextWalk ==
    \/ EnableInputStep(WalkLim)
    \/ ToggleStateStep(WalkLim)
    \/ SetInputStringStep(Numeral(Len(submissions)), WalkLim)
    \/ ExecStep(WalkLim)
    \/ \E sym \in {"SDLK_UP", "SDLK_DOWN", "SDLK_RETURN"} :
           KeyPressStep(sym, WalkLim)

SpecWalk == Init /\ [][NextWalk]_vars

\* C4: with the console active and the history not empty, an Up press at
\* a cursor of k - 1 >= 0 (the k-th Up in a row after Exec left the cursor
\* at 0) moves the cursor to k and sets the input string to entry
\* (k - 1) mod n of the history, counted from 0 at the newest; and Exec with
\* input enabled leaves the cursor at 0.
C4_UpWalksHistory ==
    [][/\ (/\ KeyPressStep("SDLK_UP", WalkLim)
           /\ state_ # "kInactive"
           /\ input_history_ # <<>>
           /\ input_history_position_ >= 0)
          => /\ input_history_position_' = input_history_position_ + 1
             /\ input_string_' =
                    input_history_[(input_history_position_
                                    % Len(input_history_)) + 1]
       /\ (ExecStep(WalkLim) /\ input_enabled_)
          => input_history_position_' = 0]_vars

\* With three commands in the history the fourth Up has wrapped round to
\* the newest.
C4_Witness ==
    /\ state_ # "kInactive"
    /\ Len(input_history_) = 3
    /\ input_history_ = NewestFirst(submissions, 3)
    /\ input_history_position_ = 4
    /\ input_string_ = input_history_[1]

\* C5 as claimed: at every Up or Down press with the console active and
\* the history not empty, whatever the cursor, the index used lies in
\* 0 .. n - 1 and the input string becomes the entry at that index.
C5_Claimed ==
    [][\A sym \in {"SDLK_UP", "SDLK_DOWN"} :
           (/\ KeyPressStep(sym, WalkLim)
            /\ state_ # "kInactive"
            /\ input_history_ # <<>>)
           => LET used == HistoryPositionUsed(input_history_position_',
                                              Len(input_history_))
              IN  /\ used \in 0..(Len(input_history_) - 1)
                  /\ input_string_' = input_history_[used + 1]]_vars

---------------------------------------------------------------------------
(* Submitting: Exec called directly, by Enter or Return, and by the Exec   *)
(* button, with input enabled and not, on the clear command, on the clear  *)
(* command with a blank before or after it, and on the empty string.       *)

MaxExecs == 2
MaxQueueExec == 2
MaxLinesExec == 1

ExecLim == [weight |-> Unbounded, input |-> Unbounded,
            submissions |-> MaxExecs, queue |-> MaxQueueExec,
            cursor |-> Unbounded, lines |-> MaxLinesExec,
            time |-> Unbounded]

ExecTexts == {kClear, <<32>> \o kClear, kClear \o <<32>>}

\* A point over the Exec button, and a point of the panel beside it.
ExecButtonPoint(c) ==
    [x |-> screen_virtual_width - Scaled(1700),
     y |-> Bottom_(c) + Scaled(2200)]

PanelPoint(c) == [x |-> Scaled(1000), y |-> Bottom_(c) + Scaled(2200)]

ExecByKeyStep(lim) ==
    \E sym \in {"SDLK_RETURN", "SDLK_KP_ENTER"} : KeyPressStep(sym, lim)

\* The release of a press taken by the Exec button, over the button.
ExecByButtonStep(lim) ==
    /\ \E i \in DOMAIN buttons_ :
           /\ buttons_[i].call = ExecCall
           /\ buttons_[i].pressed
           /\ InUs(buttons_[i], ExecButtonPoint(Self).x,
                   ExecButtonPoint(Self).y - Bottom_(Self))
    /\ MouseUpStep(1, ExecButtonPoint(Self).x, ExecButtonPoint(Self).y,
                   DesktopHost, lim)

NextExec ==
    \/ EnableInputStep(ExecLim)
    \/ ToggleStateStep(ExecLim)
    \/ \E val \in ExecTexts : SetInputStringStep(val, ExecLim)
    \/ ExecStep(ExecLim)
    \/ ExecByKeyStep(ExecLim)
    \/ MouseDownStep(1, ExecButtonPoint(Self).x, ExecButtonPoint(Self).y,
                     ExecLim)
    \/ \E p \in {ExecButtonPoint(Self), PanelPoint(Self)} :
           MouseUpStep(1, p.x, p.y, DesktopHost, ExecLim)
    \/ PrintStep(<<49, 50, 51>>, ExecLim)
    \/ \E repr \in Reprs : RunPushedCallStep(repr, ExecLim)

SpecExec == Init /\ [][NextExec]_vars

\* A step in which Exec runs: called directly, reached by Enter or Return
\* while the console is active, or run by the Exec button on release.
ExecReached ==
    \/ ExecStep(ExecLim)
    \/ state_ # "kInactive" /\ ExecByKeyStep(ExecLim)
    \/ ExecByButtonStep(ExecLim)


\* C6: Exec reached while input is not enabled, by a direct call, by Enter
\* or Return, or by the Exec button, leaves the input string, the command
\* history, the history cursor, the finalized lines and the accumulator as
\* they were (and every other field of the console but the pressed flag
\* the release clears), pushes nothing to the event loop, and calls out
\* only to log a warning.
C6_DisabledExecIgnored ==
    [][(ExecReached /\ ~input_enabled_)
       => /\ UNCHANGED <<input_string_, input_history_,
                         input_history_position_, lines_, last_line_,
                         event_loop>>
          /\ UNCHANGED <<state_, state_prev_, transition_start_,
                         input_text_dirty_, input_enabled_,
                         last_line_mesh_dirty_, tab_buttons_, active_tab_,
                         python_console_pressed_, string_edit_adapter_,
                         display_time, submissions, finalized>>
          /\ \/ buttons_' = buttons_
             \/ /\ ExecByButtonStep(ExecLim)
                /\ buttons_' = [i \in DOMAIN buttons_ |->
                                  [buttons_[i] EXCEPT !.pressed = FALSE]]
          /\ called' = {"Log(kWarning)"}]_vars

\* The Exec button has been released over a typed command and lines that
\* were printed, with input not enabled: all of it is still there.
C6_Witness ==
    /\ ~input_enabled_
    /\ called = {"Log(kWarning)"}
    /\ state_ # "kInactive"
    /\ input_string_ = kClear
    /\ lines_ # <<>>
    /\ last_line_ # <<>>
    /\ input_history_ = <<>>
    /\ event_loop = <<>>
    /\ \A i \in DOMAIN buttons_ : ~buttons_[i].pressed

\* C7: with input enabled, Exec on the input string "clear" leaves the
\* finalized lines and the accumulator empty and pushes nothing to the
\* event loop.
C7_ClearWipes ==
    [][(ExecReached /\ input_enabled_ /\ input_string_ = kClear)
       => /\ lines_' = <<>>
          /\ last_line_' = <<>>
          /\ event_loop' = event_loop
          /\ "PushCall" \notin called']_vars

\* "clear" has just been submitted over a finalized line and a partly
\* filled accumulator.
C7_Witness ==
    /\ input_enabled_
    /\ submissions # <<>>
    /\ Last(submissions) = kClear
    /\ wiped.lines > 0
    /\ wiped.bytes > 0
    /\ lines_ = <<>>
    /\ last_line_ = <<>>
    /\ event_loop = <<>>
    /\ called = {}

\* C8 as claimed: with input enabled, Exec on any input string whose
\* trimmed form is "clear" empties the finalized lines and the accumulator
\* and pushes nothing to the event loop.
C8_Claimed ==
    [][(ExecReached /\ input_enabled_ /\ Trimmed(input_string_) = kClear)
       => /\ lines_' = <<>>
          /\ last_line_' = <<>>
          /\ event_loop' = event_loop]_vars

\* C8 as the code has it: with input enabled, Exec wipes the line buffer
\* and pushes nothing exactly when the input string is "clear" byte for
\* byte; any other string, " clear" and "clear " among them, leaves the
\* line buffer alone and is pushed to the event loop as it stands.
C8_OnlyExactClear ==
    [][(ExecReached /\ input_enabled_)
       => IF input_string_ = kClear
          THEN /\ lines_' = <<>>
               /\ last_line_' = <<>>
               /\ event_loop' = event_loop
          ELSE /\ lines_' = lines_
               /\ last_line_' = last_line_
               /\ event_loop' = Append(event_loop, input_string_)]_vars

\* " clear" has just been submitted over printed lines: they are still
\* there and the string waits in the event loop.
C8_Witness ==
    /\ input_enabled_
    /\ submissions # <<>>
    /\ Last(submissions) = <<32>> \o kClear
    /\ "PushCall" \in called
    /\ event_loop # <<>>
    /\ Last(event_loop) = <<32>> \o kClear
    /\ lines_ # <<>>
    /\ last_line_ # <<>>

\* C9: after every Exec with input enabled, whatever the input string s
\* was, the history cursor is 0, the input string is empty, the front of
\* the command history is s, and s has been pushed to the event loop once,
\* or not at all if s is "clear".
C9_ExecPostcondition ==
    [][(ExecReached /\ input_enabled_)
       => /\ input_history_position_' = 0
          /\ input_string_' = <<>>
          /\ input_history_' # <<>>
          /\ Head(input_history_') = input_string_
          /\ event_loop' = IF input_string_ = kClear THEN event_loop
                           ELSE Append(event_loop, input_string_)
          /\ "PushCall" \in called' <=> input_string_ # kClear]_vars

\* The empty string has been submitted twice running; both are in the
\* history and in the event loop.
C9_Witness ==
    /\ input_enabled_
    /\ submissions = <<<<>>, <<>>>>
    /\ input_history_ = <<<<>>, <<>>>>
    /\ event_loop = <<<<>>, <<>>>>
    /\ input_history_position_ = 0
    /\ input_string_ = <<>>
    /\ "PushCall" \in called

---------------------------------------------------------------------------
(* Printing past the line limit.  The text printed is the run of two-digit *)
(* numerals 00 01 02 ..., each as wide as a line, so that the n-th line    *)
(* finalized reads n - 1; it arrives a line at a time or three lines in    *)
(* one call, while display time passes.                                    *)

MaxEvicted == 2
MaxTimeLines == 1

LinesLim == [weight |-> Unbounded, input |-> Unbounded,
             submissions |-> Unbounded, queue |-> Unbounded,
             cursor |-> Unbounded,
             lines |-> kDevConsoleLineLimit + MaxEvicted,
             time |-> MaxTimeLines]

Numeral2(n) == <<Digit((n \div 10) % 10), Digit(n % 10)>>

\* How many numerals have been printed.
Printed == Len(finalized) + (IF last_line_ = <<>> THEN 0 ELSE 1)

NextLines ==
    \/ PrintStep(Numeral2(Printed), LinesLim)
    \/ PrintStep(Numeral2(Printed) \o Numeral2(Printed + 1)
                 \o Numeral2(Printed + 2), LinesLim)
    \/ Tick(LinesLim)

SpecLines == Init /\ [][NextLines]_vars

\* The last n entries of s, in order.
Newest(s, n) == SubSeq(s, Len(s) - n + 1, Len(s))

\* C10: however Print is called, lines_ holds at most 80 lines, and holds
\* exactly the lines finalized most recently, in the order they were
\* finalized: line i of lines_ reads the numeral of its place in
\* everything finalized, creation times never decrease along lines_, and
\* a Print that finalizes k lines leaves lines_ as what it was followed by
\* the k new lines, less as many from its front as exceed 80.
C10_LinesBounded ==
    /\ Len(lines_) <= 80
    /\ lines_ = Newest(finalized, Min(Len(finalized), 80))
    /\ \A i \in 1..Len(lines_) :
           lines_[i].s = Numeral2(Len(finalized) - Len(lines_) + i - 1)
    /\ \A i \in 1..(Len(lines_) - 1) :
           lines_[i].creation_time <= lines_[i + 1].creation_time
    /\ [][\A k \in 1..3 :
              Len(finalized') = Len(finalized) + k
              => \E drop \in 0..k :
                     /\ drop = IF Len(lines_) + k > 80
                               THEN Len(lines_) + k - 80 ELSE 0
                     /\ lines_' = SubSeq(lines_, drop + 1, Len(lines_))
                                  \o Newest(finalized', k)]_vars

\* Eighty-two lines have been finalized, the last of them after time had
\* passed: lines 00 and 01 are gone and line 02 is the oldest kept.
C10_Witness ==
    /\ Len(finalized) = 82
    /\ Len(lines_) = 80
    /\ lines_[1].s = Numeral2(2)
    /\ lines_[80].s = Numeral2(81)
    /\ lines_[77].creation_time = 0
    /\ lines_[78].creation_time = 1

---------------------------------------------------------------------------
(* Appending text of every sort: plain bytes, a newline, a code point of   *)
(* two bytes, text wider than a line, the empty text, a code point cut in  *)
(* two between calls, a stray continuation byte, and text with a zero byte *)
(* in it.                                                                  *)

MaxAppended == 5

AppendLim == [weight |-> Unbounded, input |-> Unbounded,
              submissions |-> Unbounded, queue |-> Unbounded,
              cursor |-> Unbounded, lines |-> Unbounded,
              time |-> Unbounded]

AppendTexts == {<<>>, <<97>>, <<10>>, <<195, 169>>, <<98, 99, 100>>,
                <<195>>, <<169>>, <<97, 0, 98>>}

NextAppend ==
    \E s \in AppendTexts :
        /\ Len(appended.given) + Len(s) <= MaxAppended
        /\ PrintStep(s, AppendLim)

SpecAppend == Init /\ [][NextAppend]_vars

\* The text of the lines, in order, end to end.
RECURSIVE LinesText(_)
LinesText(lines) ==
    IF lines = <<>> THEN <<>> ELSE Head(lines).s \o LinesText(Tail(lines))

\* No line is wider than a line may be.
WithinBudget ==
    \A i \in DOMAIN lines_ :
        GetStringWidth(lines_[i].s) <= kDevConsoleStringBreakUpSize

\* C11 as claimed: after any Print calls the text of the finalized lines in
\* order followed by the accumulator is the text appended, end to end,
\* byte for byte, and no finalized line is wider than the budget.
C11_Claimed ==
    /\ LinesText(lines_) \o last_line_ = appended.given
    /\ WithinBudget

\* C11 as the code has it: the finalized lines in order followed by the
\* accumulator are the appended texts end to end, each read as a C string
\* (up to its first zero byte) and made valid UTF-8 on its own; so they are
\* the text appended byte for byte whenever every text appended was valid
\* UTF-8 with no zero byte.  No finalized line is wider than the budget,
\* and every line and the accumulator are whole code points.
C11_TakenTextKept ==
    /\ LinesText(lines_) \o last_line_ = appended.taken
    /\ appended.taken = appended.given
           => LinesText(lines_) \o last_line_ = appended.given
    /\ WithinBudget
    /\ \A i \in DOMAIN lines_ : GetValidUTF8(lines_[i].s) = lines_[i].s
    /\ GetValidUTF8(last_line_) = last_line_

\* Valid text has been appended in three calls, a two-byte code point
\* among it, and a line has been cut off it.
C11_Witness ==
    /\ appended.given = <<97, 195, 169, 97>>
    /\ appended.taken = appended.given
    /\ Len(lines_) = 1
    /\ lines_[1].s = <<97, 195, 169>>
    /\ last_line_ = <<97>>

---------------------------------------------------------------------------
(* Keys, in builds of both sorts: every key pressed and released in every  *)
(* state, with text typed and commands submitted in between.               *)

MaxWeightKeys == 2

KeysLim == [weight |-> MaxWeightKeys, input |-> Unbounded,
            submissions |-> Unbounded, queue |-> Unbounded,
            cursor |-> Unbounded, lines |-> Unbounded, time |-> Unbounded]

NextKeys ==
    \/ \E sym \in Keys : KeyPressStep(sym, KeysLim)
    \/ \E sym \in Keys : KeyReleaseStep(sym, KeysLim)
    \/ \E text \in Texts : TextEditingStep(text, KeysLim)
    \/ EnableInputStep(KeysLim)

SpecKeys == InitAnyBuild /\ [][NextKeys]_vars

ActivateKeys == {kDevConsoleActivateKey1, kDevConsoleActivateKey2}

\* C12: a press and a release of an activation key are reported consumed
\* in every state and every build; in a build that is not locked down the
\* press toggles the state once, and in a locked-down build it changes
\* nothing; the release of any other key is reported consumed exactly when
\* the state is not Inactive; the press of any other key while Inactive is
\* reported unconsumed and changes nothing; no release changes anything.
C12_KeyConsumption ==
    [][\A sym \in Keys :
           /\ KeyPressStep(sym, KeysLim)
              => /\ sym \in ActivateKeys
                    => /\ HandleKeyPress(Self, sym).ret
                       /\ ~locked_down_build
                          => /\ state_' = ToggleTarget(state_)
                             /\ state_prev_' = state_
                             /\ toggle_run' = (toggle_run + 1) % 3
                             /\ called' = {"PlaySound"}
                       /\ locked_down_build => Self' = Self /\ called' = {}
                 /\ (sym \notin ActivateKeys /\ state_ = "kInactive")
                    => /\ ~HandleKeyPress(Self, sym).ret
                       /\ Self' = Self
                       /\ called' = {}
           /\ KeyReleaseStep(sym, KeysLim)
              => /\ HandleKeyRelease(Self, sym)
                    = (sym \in ActivateKeys \/ state_ # "kInactive")
                 /\ Self' = Self
                 /\ called' = {}]_vars

\* An activation key has taken the console from Full to Inactive with
\* text typed and input enabled.
C12_Witness ==
    /\ ~locked_down_build
    /\ state_ = "kInactive"
    /\ state_prev_ = "kFull"
    /\ called = {"PlaySound"}
    /\ input_string_ # <<>>
    /\ input_enabled_

---------------------------------------------------------------------------
(* The mouse: presses and releases of button 1 and of another button, at   *)
(* the points of MouseOffsets, while the console is toggled, the panel     *)
(* slides, and the host answers as it pleases about its keyboard and its   *)
(* string editor.                                                          *)

MaxTimeMouse == 2

MouseLim == [weight |-> Unbounded, input |-> Unbounded,
             submissions |-> Unbounded, queue |-> Unbounded,
             cursor |-> Unbounded, lines |-> Unbounded,
             time |-> MaxTimeMouse]

NextMouse ==
    \/ ToggleStateStep(MouseLim)
    \/ Tick(MouseLim)
    \/ \E e \in MouseEvents(Self) :
           MouseDownStep(e.button, e.x, e.y, MouseLim)
    \/ \E e \in MouseEvents(Self) : \E h \in HostsAt(Self, e) :
           MouseUpStep(e.button, e.x, e.y, h, MouseLim)
    \/ InputAdapterFinishStep(MouseLim)

SpecMouse == Init /\ [][NextMouse]_vars

\* Some widget takes the press: the console is active, the button is 1,
\* and the press of some tab or general widget returns true.
WidgetTakes(c, button, x, y) ==
    /\ c.state_ # "kInactive"
    /\ button = 1
    /\ \/ \E i \in DOMAIN c.tab_buttons_ :
              Widget_HandleMouseDown(c.tab_buttons_[i], x,
                                     y - Bottom_(c)).ret
       \/ \E i \in DOMAIN c.buttons_ :
              Widget_HandleMouseDown(c.buttons_[i], x, y - Bottom_(c)).ret

\* C13: a press that no widget takes is reported unconsumed and changes
\* nothing if the console is Inactive or the press is below the panel
\* boundary; otherwise it is reported consumed and changes nothing but the
\* pending flag, which it sets if the button is 1.
C13_UnconsumedPress ==
    [][\A e \in MouseEvents(Self) :
           (/\ MouseDownStep(e.button, e.x, e.y, MouseLim)
            /\ ~WidgetTakes(Self, e.button, e.x, e.y))
           => IF state_ = "kInactive" \/ e.y < Bottom_(Self)
              THEN /\ ~HandleMouseDown(Self, e.button, e.x, e.y).ret
                   /\ Self' = Self
              ELSE /\ HandleMouseDown(Self, e.button, e.x, e.y).ret
                   /\ Self' = [Self EXCEPT !.python_console_pressed_ =
                                               @ \/ e.button = 1]]_vars

\* A press of button 1 in the panel beside the widgets is pending, with
\* the panel at rest in Full.
C13_Witness ==
    /\ state_ = "kFull"
    /\ display_time - transition_start_ >= kTransitionTicks
    /\ python_console_pressed_
    /\ \A i \in DOMAIN tab_buttons_ : ~tab_buttons_[i].pressed
    /\ \A i \in DOMAIN buttons_ : ~buttons_[i].pressed

\* The widgets in the order a press is offered to them: tabs, then
\* general widgets.
Offered(c) == c.tab_buttons_ \o c.buttons_

Willing(c, x, y) ==
    {i \in DOMAIN Offered(c) :
        Widget_HandleMouseDown(Offered(c)[i], x, y - Bottom_(c)).ret}

First(S) == CHOOSE i \in S : \A j \in S : i <= j

PressedWidgets(c) == {i \in DOMAIN Offered(c) : Offered(c)[i].pressed}

\* C14: a press of button 1 while the console is active that some widget
\* is willing to take is reported consumed, sets pressed on the first
\* willing widget in the order tabs, then general widgets, and changes
\* nothing else, the pending flag included; only a press ever adds a
\* pressed widget; a press made while no widget is pressed leaves at most
\* one pressed, and a release of button 1 leaves none pressed, so that at
\* most one widget is pressed at any time when presses and releases
\* alternate.
C14_FirstWidgetTakesPress ==
    [][/\ \A e \in MouseEvents(Self) :
              (/\ state_ # "kInactive"
               /\ e.button = 1
               /\ Willing(Self, e.x, e.y) # {}
               /\ MouseDownStep(e.button, e.x, e.y, MouseLim))
              => LET first == First(Willing(Self, e.x, e.y))
                 IN  /\ HandleMouseDown(Self, 1, e.x, e.y).ret
                     /\ Offered(Self)' =
                            [Offered(Self) EXCEPT ![first].pressed = TRUE]
                     /\ python_console_pressed_' = python_console_pressed_
                     /\ PressedWidgets(Self)' \subseteq
                            PressedWidgets(Self) \cup {first}
       /\ (/\ PressedWidgets(Self) = {}
           /\ Cardinality(PressedWidgets(Self)') > 1)
          => ~\E e \in MouseEvents(Self) :
                  MouseDownStep(e.button, e.x, e.y, MouseLim)
       /\ PressedWidgets(Self)' # {}
          => ~\E e \in MouseEvents(Self) : \E h \in HostsAt(Self, e) :
                  /\ e.button = 1
                  /\ MouseUpStep(e.button, e.x, e.y, h, MouseLim)
       /\ (\E i \in PressedWidgets(Self)' : i \notin PressedWidgets(Self))
              => \E e \in MouseEvents(Self) :
                     MouseDownStep(e.button, e.x, e.y, MouseLim)]_vars

\* With the first tab selected, the second tab alone is pressed and no
\* console interaction is pending.
C14_Witness ==
    /\ state_ # "kInactive"
    /\ tab_buttons_[1].selected
    /\ PressedWidgets(Self) = {2}
    /\ ~python_console_pressed_

\* Presses and releases beside the widgets, on hosts of every sort: in
\* the panel, on its boundary and below it, with button 1 and another, and
\* over the Exec button.
ReleaseEvents(c) ==
    {[button |-> b, x |-> Scaled(1000), y |-> Bottom_(c) + dy] :
        b \in {1, 3}, dy \in {Scaled(2200), 0, -Scaled(10000)}}
    \cup {[button |-> 1, x |-> ExecButtonPoint(c).x,
           y |-> ExecButtonPoint(c).y]}

NextRelease ==
    \/ ToggleStateStep(MouseLim)
    \/ Tick(MouseLim)
    \/ \E e \in ReleaseEvents(Self) :
           MouseDownStep(e.button, e.x, e.y, MouseLim)
    \/ \E e \in ReleaseEvents(Self) : \E h \in Hosts :
           MouseUpStep(e.button, e.x, e.y, h, MouseLim)
    \/ InputAdapterFinishStep(MouseLim)

SpecRelease == Init /\ [][NextRelease]_vars

EditorCalls == {"InvokeStringEditor", "Log(kError)"}

\* C15: a release of button 1 calls InvokeStringEditor_ exactly when a
\* console interaction is pending, the release is above the panel boundary,
\* the host has no direct keyboard input and the host has a string editor;
\* it always leaves the pending flag clear.  A release that does not call
\* it, and a release of another button, leave the held adapter as it was
\* and hand nothing to the platform editor; a release of another button
\* leaves the pending flag as it was.
\* (Written "the release did this, or the step was not that release".)
C15_EditorOnRelease ==
    [][\A e \in ReleaseEvents(Self) : \A h \in Hosts :
           \/ LET wanted == /\ e.button = 1
                            /\ python_console_pressed_
                            /\ e.y > Bottom_(Self)
                            /\ ~h.direct_keyboard
                            /\ h.have_editor
                  asked == InvokeStringEditor_(Self, h)
              IN  /\ e.button = 1 => ~python_console_pressed_'
                  /\ e.button # 1
                     => python_console_pressed_' = python_console_pressed_
                  /\ wanted
                     => /\ string_edit_adapter_' = asked.string_edit_adapter_
                        /\ called' \cap EditorCalls = asked.called
                  /\ ~wanted
                     => /\ string_edit_adapter_' = string_edit_adapter_
                        /\ called' \cap EditorCalls = {}
           \/ ~MouseUpStep(e.button, e.x, e.y, h, MouseLim)]_vars

\* A press in the panel has been released there on a host with a string
\* editor and no keyboard: the editor has been handed an adapter, and
\* nothing is pending.
C15_Witness ==
    /\ state_ # "kInactive"
    /\ "InvokeStringEditor" \in called
    /\ string_edit_adapter_ = "adapter"
    /\ ~python_console_pressed_

\* The release calls InvokeStringEditor_.
EditorWanted(e, h) ==
    /\ e.button = 1
    /\ python_console_pressed_
    /\ e.y > Bottom_(Self)
    /\ ~h.direct_keyboard
    /\ h.have_editor

\* C16: a request for the string editor made while an adapter is held that
\* cannot be replaced changes nothing and hands nothing to the platform
\* editor; one whose construction fails only logs an error, and one whose
\* new adapter can be replaced at once does nothing, both leaving the held
\* adapter as it was; otherwise the new adapter is held and is handed to
\* the platform editor.  So an adapter is handed over only when none is
\* held or the held one can be replaced; the held adapter changes only by
\* such a request or by InputAdapterFinish, which leaves none held.
C16_EditorRequests ==
    [][/\ \A e \in ReleaseEvents(Self) : \A h \in Hosts :
              \/ IF string_edit_adapter_ # "none" /\ ~h.can_replace
                 THEN /\ string_edit_adapter_' = string_edit_adapter_
                      /\ called' \cap EditorCalls = {}
                 ELSE CASE h.construct = "fails" ->
                               /\ string_edit_adapter_' = string_edit_adapter_
                               /\ called' \cap EditorCalls = {"Log(kError)"}
                        [] h.construct = "replaceable" ->
                               /\ string_edit_adapter_' = string_edit_adapter_
                               /\ called' \cap EditorCalls = {}
                        [] h.construct = "ok" ->
                               /\ string_edit_adapter_' = "adapter"
                               /\ called' \cap EditorCalls
                                      = {"InvokeStringEditor"}
              \/ ~EditorWanted(e, h)
              \/ ~MouseUpStep(e.button, e.x, e.y, h, MouseLim)
       /\ InputAdapterFinishStep(MouseLim)
              => string_edit_adapter_' = "none" /\ called' = {}
       /\ string_edit_adapter_' # string_edit_adapter_
              => \/ "InvokeStringEditor" \in called'
                 \/ InputAdapterFinishStep(MouseLim)]_vars

\* With an adapter held that could be replaced, a further request failed
\* to construct one: the error is logged and the adapter is still held.
C16_Witness ==
    /\ string_edit_adapter_ = "adapter"
    /\ called = {"Log(kError)"}
    /\ ~python_console_pressed_

---------------------------------------------------------------------------
(* Exec and the event loop.  Commands are submitted, the input string is   *)
(* edited, and the event loop runs the calls pushed to it; a call that is  *)
(* waiting is run in the end.                                              *)

MaxExecsAsync == 3
MaxQueueAsync == 2
MaxLinesAsync == 2

AsyncLim == [weight |-> Unbounded, input |-> Unbounded,
             submissions |-> MaxExecsAsync, queue |-> MaxQueueAsync,
             cursor |-> Unbounded, lines |-> MaxLinesAsync,
             time |-> Unbounded]

AsyncTexts == {<<97>>, <<98>>, kClear}

RunNextCall == \E repr \in Reprs : RunPushedCallStep(repr, AsyncLim)

NextAsync ==
    \/ EnableInputStep(AsyncLim)
    \/ \E val \in AsyncTexts : SetInputStringStep(val, AsyncLim)
    \/ ExecStep(AsyncLim)
    \/ RunNextCall

SpecAsync == Init /\ [][NextAsync]_vars /\ WF_vars(RunNextCall)

\* The strings Exec handed to SubmitCommand_, oldest first.
Submitted == SelectSeq(submissions, LAMBDA s : s # kClear)

\* How many of them the event loop has run.
Executed == Len(Submitted) - Len(event_loop)

\* What every Exec with input enabled does at once.
ExecReturns ==
    /\ input_history_' # <<>>
    /\ Head(input_history_') = input_string_
    /\ input_string_' = <<>>

\* The calls waiting are the newest commands submitted, in the order and
\* with the text of their submission.
WaitingInOrder ==
    /\ Len(event_loop) <= Len(Submitted)
    /\ event_loop = Newest(Submitted, Len(event_loop))

\* The event loop changes only by a push at its end or by running its
\* oldest call, and the line buffer changes only when a call is run (or
\* Exec clears it).
QueueDiscipline ==
    /\ event_loop' # event_loop
           => \/ ExecStep(AsyncLim)
                    /\ event_loop' = Append(event_loop, input_string_)
              \/ RunNextCall /\ event_loop' = Tail(event_loop)
    /\ RunNextCall => event_loop' = Tail(event_loop)
    /\ (lines_' # lines_ \/ last_line_' # last_line_)
           => \/ RunNextCall
              \/ ExecStep(AsyncLim) /\ input_string_ = kClear

\* C17 as claimed: every Exec pushes one call holding its input string and
\* returns with history updated and the input string cleared, running
\* nothing itself; calls are run once each, oldest first, with the text of
\* their submission; every string submitted is run in the end.
C17_Claimed ==
    /\ [][ExecStep(AsyncLim)
          => /\ event_loop' = Append(event_loop, input_string_)
             /\ ExecReturns
             /\ UNCHANGED <<lines_, last_line_>>]_vars
    /\ [][QueueDiscipline]_vars
    /\ \A k \in 1..MaxExecsAsync :
           (Len(submissions) >= k)
               ~> (Len(submissions) - Len(event_loop) >= k)

\* C17: Exec with input enabled on a string other than "clear" pushes one
\* call holding that string to the end of the event loop and returns with
\* history updated and the input string cleared, the line buffer as it
\* was.  The calls waiting are always the newest commands so submitted, in
\* submission order and with the text of submission, whatever is done to
\* the input string afterwards; the event loop runs the oldest and drops
\* it, and only such a run prints.  Under weak fairness of the event loop
\* the k-th command submitted is run in the end, for every k.
C17_SubmittedRunLater ==
    /\ []WaitingInOrder
    /\ [][(ExecStep(AsyncLim) /\ input_enabled_ /\ input_string_ # kClear)
          => /\ event_loop' = Append(event_loop, input_string_)
             /\ "PushCall" \in called'
             /\ ExecReturns
             /\ UNCHANGED <<lines_, last_line_>>]_vars
    /\ [][QueueDiscipline]_vars
    /\ \A k \in 1..MaxExecsAsync :
           (Len(Submitted) >= k) ~> (Executed >= k)

\* "a" was submitted, the input string was edited to "b", and the event
\* loop then ran the call and printed its result.
C17_Witness ==
    /\ Submitted = <<<<97>>>>
    /\ input_string_ = <<98>>
    /\ event_loop = <<>>
    /\ Executed = 1
    /\ appended.given = <<49, 10>>

---------------------------------------------------------------------------
(* Draw over the life of the console: it is toggled and dismissed at any   *)
(* display time from 0 on, its input string is set, and frames are drawn.  *)

MaxTimeDraw == 4

DrawLim == [weight |-> Unbounded, input |-> Unbounded,
            submissions |-> Unbounded, queue |-> Unbounded,
            cursor |-> Unbounded, lines |-> Unbounded,
            time |-> MaxTimeDraw]

NextDraw ==
    \/ ToggleStateStep(DrawLim)
    \/ DismissStep(DrawLim)
    \/ Tick(DrawLim)
    \/ \E val \in Texts : SetInputStringStep(val, DrawLim)
    \/ DrawStep(DrawLim)

SpecDraw == Init /\ [][NextDraw]_vars

\* Draw, called now, renders something.
Renders == "DrawMesh" \in Draw(Self).called

\* ToggleState or Dismiss has started a transition at some time: each
\* leaves state_ or state_prev_ other than kInactive, as they are at
\* construction.
TransitionStarted == state_ # "kInactive" \/ state_prev_ # "kInactive"

\* C18 as claimed: Draw renders nothing exactly when no transition has
\* ever started, or the state is kInactive and the transition duration has
\* passed since the transition began; in kMini and kFull every frame is
\* drawn, at whatever display time the console was toggled.
C18_Claimed ==
    /\ ~Renders <=> \/ ~TransitionStarted
                    \/ /\ state_ = "kInactive"
                       /\ display_time - transition_start_
                              >= kTransitionTicks
    /\ state_ \in {"kMini", "kFull"} => Renders

---------------------------------------------------------------------------
(* Clicks on the tabs: on a TabButton_ standing alone, selected or not,    *)
(* and on the tabs of the console, at their middles and on the edges they  *)
(* share.                                                                  *)

TabsLim == [weight |-> Unbounded, input |-> Unbounded,
            submissions |-> Unbounded, queue |-> Unbounded,
            cursor |-> Unbounded, lines |-> Unbounded,
            time |-> Unbounded]

TabEvents(c) ==
    {[button |-> 1, x |-> x, y |-> Bottom_(c) - Scaled(1300)] :
        x \in {TabLeft(i) + Scaled(4500) : i \in 1..Len(tabs_)}
              \cup {TabLeft(i) : i \in 2..Len(tabs_)}}

NextTabs ==
    \/ ToggleStateStep(TabsLim)
    \/ \E selected \in BOOLEAN : ProbeNew("TabButton_", "kCenter", selected)
    \/ \E p \in ProbePoints(probe) : ProbePress(p.x, p.y)
    \/ \E p \in ProbePoints(probe) : ProbeRelease(p.x, p.y, MaxRuns)
    \/ \E e \in TabEvents(Self) :
           MouseDownStep(e.button, e.x, e.y, TabsLim)
    \/ \E e \in TabEvents(Self) : \E h \in DesktopHostsAt(Self, e) :
           MouseUpStep(e.button, e.x, e.y, h, TabsLim)

SpecTabs == Init /\ [][NextTabs]_vars

\* The tabs of the console that are selected and that the point is in.
SelectedTabsAt(c, x, y) ==
    {i \in DOMAIN c.tab_buttons_ :
        /\ c.tab_buttons_[i].selected
        /\ InUs(c.tab_buttons_[i], x, y - Bottom_(c))}

\* C19: a TabButton_ whose selected flag is set is never pressed.  A press
\* on it, at a point inside it too, returns false and leaves it as it was,
\* and a release on it runs nothing.  In the console a press at a point
\* inside the selected tab leaves that tab and the active tab as they
\* were and goes on to the later widgets: the first of them willing takes
\* it, and if none is, the panel check decides (below the boundary the
\* press is not consumed and nothing changes; otherwise it is pending).  A
\* release at such a point runs no action of the selected tab.
C19_SelectedTabIgnoresPress ==
    /\ [](/\ (probe.kind = "TabButton_" /\ probe.selected) => ~probe.pressed
          /\ \A i \in DOMAIN tab_buttons_ :
                 tab_buttons_[i].selected => ~tab_buttons_[i].pressed)
    /\ [][/\ (probe.kind = "TabButton_" /\ probe.selected)
             => \A p \in ProbePoints(probe) :
                    /\ ProbePress(p.x, p.y)
                           => /\ ~Widget_HandleMouseDown(probe, p.x, p.y).ret
                              /\ probe' = probe
                    /\ ProbeRelease(p.x, p.y, MaxRuns)
                           => RanNothing /\ probe' = probe
          /\ \A e \in TabEvents(Self) :
                 \/ SelectedTabsAt(Self, e.x, e.y) = {}
                 \/ LET sel == SelectedTabsAt(Self, e.x, e.y)
                        later == Willing(Self, e.x, e.y)
                    IN  /\ sel \cap later = {}
                        /\ \A i \in sel :
                               Widget_HandleMouseUp(
                                   tab_buttons_[i], e.x,
                                   e.y - Bottom_(Self)).calls = <<>>
                        /\ MouseDownStep(e.button, e.x, e.y, TabsLim)
                               => /\ active_tab_' = active_tab_
                                  /\ \A i \in sel :
                                         tab_buttons_'[i] = tab_buttons_[i]
                                  /\ IF state_ = "kInactive" THEN Self' = Self
                                     ELSE IF later # {}
                                     THEN Offered(Self)' =
                                              [Offered(Self) EXCEPT
                                                  ![First(later)].pressed =
                                                      TRUE]
                                     ELSE /\ Offered(Self)' = Offered(Self)
                                          /\ python_console_pressed_' =
                                                 (python_console_pressed_
                                                  \/ e.y >= Bottom_(Self))
                        /\ (\E h \in DesktopHostsAt(Self, e) :
                               MouseUpStep(e.button, e.x, e.y, h, TabsLim))
                               => \/ active_tab_' = active_tab_
                                  \/ \E j \in DOMAIN tab_buttons_ :
                                         /\ j \notin sel
                                         /\ tab_buttons_[j].pressed
                                         /\ active_tab_' = tabs_[j]]_vars

\* A selected TabButton_ has been pressed at a point inside it and is not
\* pressed, while in the console a tab other than the first is selected
\* and no widget is pressed.
C19_Witness ==
    /\ probe.kind = "TabButton_"
    /\ probe.selected
    /\ ~probe.pressed
    /\ called = {"Press", "InUs"}
    /\ active_tab_ = tabs_[2]
    /\ tab_buttons_[2].selected
    /\ PressedWidgets(Self) = {}

\* C20 as claimed: no release clears or rebuilds the widget collections
\* while HandleMouseUp is going through them, and what a release leaves
\* does not depend on what the loop reaches after a rebuild, no destroyed
\* widget being visited in that pass.
C20_Claimed ==
    [][\A e \in TabEvents(Self) : \A h \in DesktopHostsAt(Self, e) :
           MouseUpStep(e.button, e.x, e.y, h, TabsLim)
               => /\ "clear() in loop" \notin called'
                  /\ \A g \in DesktopHostsAt(Self, e) :
                         HandleMouseUp(Self, e.button, e.x, e.y, g)
                             = HandleMouseUp(Self, e.button, e.x, e.y, h)]_vars

---------------------------------------------------------------------------
(* The pressed flags over presses and releases anywhere, in every state of *)
(* the console.                                                            *)

\* C21: in every state, whatever it is and wherever the release is, a
\* release of button 1 handled by the console leaves no widget of
\* tab_buttons_ or buttons_ pressed; and a widget that is pressed after a
\* step and was not before it got so by a press of button 1, taken while
\* the console was active, at a point inside that widget.
C21_PressedFlags ==
    /\ [](\A e \in MouseEvents(Self) : \A h \in HostsAt(Self, e) :
              e.button = 1
                  => PressedWidgets(HandleMouseUp(Self, 1, e.x, e.y, h)) = {})
    /\ [][\A i \in PressedWidgets(Self)' \ PressedWidgets(Self) :
              \E e \in MouseEvents(Self) :
                  /\ e.button = 1
                  /\ state_ # "kInactive"
                  /\ InUs(Offered(Self)[i], e.x, e.y - Bottom_(Self))
                  /\ MouseDownStep(e.button, e.x, e.y, MouseLim)]_vars

\* The Exec button was pressed, the console was toggled to kInactive, and
\* the release came then: no widget is pressed.
C21_Witness ==
    /\ state_ = "kInactive"
    /\ called = {"Log(kWarning)"}
    /\ PressedWidgets(Self) = {}
    /\ ~python_console_pressed_

---------------------------------------------------------------------------
(* The changes of the visibility state as display time passes: by          *)
(* ToggleState and Dismiss, called by the host or reached by a key.        *)

CueKeys == {kDevConsoleActivateKey1, kDevConsoleActivateKey2, "SDLK_ESCAPE"}

NextCue ==
    \/ ToggleStateStep(DrawLim)
    \/ DismissStep(DrawLim)
    \/ Tick(DrawLim)
    \/ \E sym \in CueKeys : KeyPressStep(sym, DrawLim)
    \/ \E val \in Texts : SetInputStringStep(val, DrawLim)

SpecCue == Init /\ [][NextCue]_vars

\* C22 as claimed: every step that changes state_ sets state_prev_ to the
\* state held before it and transition_start_ to the display time, and
\* plays the cue; a Dismiss while kInactive, called or reached by Escape,
\* changes neither state_prev_ nor transition_start_.
C22_Claimed ==
    [][/\ state_' # state_
              => /\ state_prev_' = state_
                 /\ transition_start_' = display_time
                 /\ "PlaySound" \in called'
       /\ (/\ state_ = "kInactive"
           /\ DismissStep(DrawLim) \/ KeyPressStep("SDLK_ESCAPE", DrawLim))
              => UNCHANGED <<state_, state_prev_, transition_start_>>]_vars

---------------------------------------------------------------------------
(* The panel boundary over the transitions.                                *)

\* The boundary as it was when the transition under way began.
BottomAtStart == Bottom_([Self EXCEPT !.display_time = transition_start_])

\* C23 as claimed: a step that changes state_ leaves the boundary Bottom_
\* gives where it was just before the step, also when the transition
\* before it was still under way; from there the boundary moves linearly
\* to the position of the new state over kTransitionSeconds, and then
\* stays at that position.
C23_Claimed ==
    /\ [][state_' # state_ => Bottom_(Self)' = Bottom_(Self)]_vars
    /\ [](LET dt == display_time - transition_start_
          IN  IF dt < kTransitionTicks
              THEN Bottom_(Self) =
                       (Height(state_) * dt
                        + BottomAtStart * (kTransitionTicks - dt))
                           \div kTransitionTicks
              ELSE Bottom_(Self) = Height(state_))

---------------------------------------------------------------------------
(* Mouse, key and text events in any order, the console being toggled by   *)
(* the activation key between them.                                        *)

MaxWeightEvents == 2

EventsLim == [weight |-> MaxWeightEvents, input |-> Unbounded,
              submissions |-> Unbounded, queue |-> Unbounded,
              cursor |-> Unbounded, lines |-> Unbounded,
              time |-> Unbounded]

EventKeys == {kDevConsoleActivateKey1, "SDLK_ESCAPE", "SDLK_BACKSPACE",
              "SDLK_UP", "SDLK_RETURN", "SDLK_a"}

\* Button 1 over the second tab, over the Exec button and in the panel.
EventPoints(c) ==
    {e \in GeneralEvents(c) : e.button = 1 /\ e.y > Bottom_(c) - Scaled(2000)}

NextEvents ==
    \/ EnableInputStep(EventsLim)
    \/ \E sym \in EventKeys : KeyPressStep(sym, EventsLim)
    \/ \E sym \in EventKeys : KeyReleaseStep(sym, EventsLim)
    \/ \E text \in Texts : TextEditingStep(text, EventsLim)
    \/ \E e \in EventPoints(Self) :
           MouseDownStep(e.button, e.x, e.y, EventsLim)
    \/ \E e \in EventPoints(Self) : \E h \in HostsAt(Self, e) :
           MouseUpStep(e.button, e.x, e.y, h, EventsLim)

SpecEvents == Init /\ [][NextEvents]_vars

\* A step of SpecEvents that is a mouse, key or text event.
IsEvent ==
    \/ \E sym \in EventKeys :
           KeyPressStep(sym, EventsLim) \/ KeyReleaseStep(sym, EventsLim)
    \/ \E text \in Texts : TextEditingStep(text, EventsLim)
    \/ \E e \in EventPoints(Self) :
           \/ MouseDownStep(e.button, e.x, e.y, EventsLim)
           \/ \E h \in HostsAt(Self, e) :
                  MouseUpStep(e.button, e.x, e.y, h, EventsLim)

\* C24 as claimed: an event that arrives while the state is kInactive runs
\* no action of a widget (no Exec, no change of tab), asks for no string
\* editor, and leaves the input string as it was; a release that comes
\* after a key press made the console kInactive is such an event.
C24_Claimed ==
    [][(state_ = "kInactive" /\ IsEvent)
       => /\ input_string_' = input_string_
          /\ submissions' = submissions
          /\ event_loop' = event_loop
          /\ active_tab_' = active_tab_
          /\ called' \cap {"InvokeStringEditor", "Log(kError)",
                           "Log(kWarning)", "PushCall",
                           "clear() in loop"} = {}]_vars

---------------------------------------------------------------------------
(* The widget collections over clicks on the tabs and the Exec button and  *)
(* key and text events between them.                                       *)

MaxWeightClicks == 1

ClicksLim == [weight |-> MaxWeightClicks, input |-> Unbounded,
              submissions |-> Unbounded, queue |-> Unbounded,
              cursor |-> Unbounded, lines |-> Unbounded,
              time |-> Unbounded]

ClickKeys == {kDevConsoleActivateKey1, "SDLK_ESCAPE", "SDLK_RETURN"}

\* Button 1 over the tabs and on the edges they share, over the Exec
\* button, in the panel and on the boundary.
ClickPoints(c) ==
    {e \in MouseEvents(c) : e.button = 1 /\ e.y > Bottom_(c) - Scaled(2000)}

NextClicks ==
    \/ \E sym \in ClickKeys : KeyPressStep(sym, ClicksLim)
    \/ \E text \in Texts : TextEditingStep(text, ClicksLim)
    \/ \E e \in ClickPoints(Self) :
           MouseDownStep(e.button, e.x, e.y, ClicksLim)
    \/ \E e \in ClickPoints(Self) : \E h \in HostsAt(Self, e) :
           MouseUpStep(e.button, e.x, e.y, h, ClicksLim)

SpecClicks == Init /\ [][NextClicks]_vars

\* The tabs that are pressed and that the point is in.
PressedTabsAt(c, x, y) ==
    {i \in DOMAIN c.tab_buttons_ :
        /\ c.tab_buttons_[i].pressed
        /\ InUs(c.tab_buttons_[i], x, y - Bottom_(c))}

\* C25: after construction and after every call of an event handler,
\* tab_buttons_ holds one TabButton_ for each name of tabs_, in the order
\* of tabs_, and the selected ones are those whose name is the active tab,
\* which is exactly one; buttons_ holds the Exec button and nothing else
\* when the active tab is "Python" and is empty otherwise.  A release
\* inside a tab that took a press (it was not selected then) makes that
\* tab the active one; where the release is inside two such tabs, one of
\* the two.
C25_OneTabSelected ==
    /\ Len(tab_buttons_) = Len(tabs_)
    /\ \A i \in DOMAIN tab_buttons_ :
           /\ tab_buttons_[i].kind = "TabButton_"
           /\ tab_buttons_[i].call = TabCall(tabs_[i])
           /\ tab_buttons_[i].selected <=> tabs_[i] = active_tab_
    /\ Cardinality({i \in DOMAIN tab_buttons_ :
                        tab_buttons_[i].selected}) = 1
    /\ IF active_tab_ = "Python"
       THEN /\ Len(buttons_) = 1
            /\ buttons_[1].kind = "Button_"
            /\ buttons_[1].call = ExecCall
       ELSE buttons_ = <<>>
    /\ \A e \in ClickPoints(Self) :
           PressedTabsAt(Self, e.x, e.y) # {}
               => \A h \in HostsAt(Self, e) :
                      \E i \in PressedTabsAt(Self, e.x, e.y) :
                          /\ ~tab_buttons_[i].selected
                          /\ HandleMouseUp(Self, e.button, e.x, e.y,
                                           h).active_tab_ = tabs_[i]

\* The third tab has just been clicked: it is the active one and the
\* only one selected, and there is no Exec button.
C25_Witness ==
    /\ "clear() in loop" \in called
    /\ active_tab_ = tabs_[3]
    /\ tab_buttons_[3].selected
    /\ ~tab_buttons_[1].selected
    /\ buttons_ = <<>>

===========================================================================
